---- MODULE Spec2Model ----
(***************************************************************************)
(* Model of the rehearse workflow engine: the expression language          *)
(* (tokenizer, parser, evaluator), the trigger context, the dependency     *)
(* aware analyzer and the sequential executor with its shell and action    *)
(* step executors.                                                         *)
(*                                                                         *)
(* A Go string is a sequence of one-character strings, so that scanning,   *)
(* splitting and prefix tests are computed, not assumed.  Fixed messages   *)
(* that the program only ever prints are kept as one multi-character       *)
(* chunk.                                                                  *)
(***************************************************************************)
EXTENDS Integers, Sequences, FiniteSets, TLC

-----------------------------------------------------------------------------
(* Strings                                                                 *)

Digits == {"0", "1", "2", "3", "4", "5", "6", "7", "8", "9"}

LowerLetters ==
    {"a", "b", "c", "d", "e", "f", "g", "h", "i", "j", "k", "l", "m",
     "n", "o", "p", "q", "r", "s", "t", "u", "v", "w", "x", "y", "z"}

UpperLetters == {"T", "R", "U", "E", "F", "A", "L", "S", "N", "W", "X"}

\* unicode.IsSpace, unicode.IsDigit, unicode.IsLetter on the characters used
IsSpace(c) == c \in {" ", "\t", "\n", "\r"}

IsDigit(c) == c \in Digits

IsLetter(c) == c \in LowerLetters \cup UpperLetters

\* strings.ToLower on one character
LowerChar(c) ==
    CASE c = "T" -> "t" [] c = "R" -> "r" [] c = "U" -> "u" [] c = "E" -> "e"
      [] c = "F" -> "f" [] c = "A" -> "a" [] c = "L" -> "l" [] c = "S" -> "s"
      [] c = "N" -> "n" [] c = "W" -> "w" [] c = "X" -> "x"
      [] OTHER -> c

ToLower(s) == [i \in 1..Len(s) |-> LowerChar(s[i])]

\* s[from:to] of Go, on 0-based offsets
Slice(s, from, to) == SubSeq(s, from + 1, to)

HasPrefix(s, p) == Len(p) <= Len(s) /\ SubSeq(s, 1, Len(p)) = p

HasSuffix(s, p) ==
    Len(p) <= Len(s) /\ SubSeq(s, Len(s) - Len(p) + 1, Len(s)) = p

\* strings.Index: 0-based offset of the first occurrence, -1 when absent
Index(s, p) ==
    LET hits == {i \in 0..(Len(s) - Len(p)) : SubSeq(s, i + 1, i + Len(p)) = p}
    IN  IF hits = {} THEN -1 ELSE CHOOSE i \in hits : \A j \in hits : i <= j

Contains(s, p) == Index(s, p) >= 0

RECURSIVE TrimLeft(_)
TrimLeft(s) ==
    IF s # <<>> /\ IsSpace(Head(s)) THEN TrimLeft(Tail(s)) ELSE s

RECURSIVE TrimRight(_)
TrimRight(s) ==
    IF s # <<>> /\ IsSpace(s[Len(s)])
    THEN TrimRight(SubSeq(s, 1, Len(s) - 1))
    ELSE s

TrimSpace(s) == TrimRight(TrimLeft(s))

\* strings.ReplaceAll for a non-empty old
RECURSIVE ReplaceAll(_, _, _)
ReplaceAll(s, old, new) ==
    LET i == Index(s, old)
    IN  IF i < 0 THEN s
        ELSE SubSeq(s, 1, i) \o new
             \o ReplaceAll(SubSeq(s, i + Len(old) + 1, Len(s)), old, new)

\* strings.Split(s, sep) for a one-character sep
RECURSIVE Split(_, _)
Split(s, sep) ==
    LET i == Index(s, <<sep>>)
    IN  IF i < 0 THEN <<s>>
        ELSE <<SubSeq(s, 1, i)>> \o Split(SubSeq(s, i + 2, Len(s)), sep)

RECURSIVE Join(_, _)
Join(strs, sep) ==
    IF strs = <<>> THEN <<>>
    ELSE IF Len(strs) = 1 THEN strs[1]
    ELSE strs[1] \o sep \o Join(Tail(strs), sep)

-----------------------------------------------------------------------------
(* Tokenizer                                                               *)

Tok(type, value) == [Type |-> type, Value |-> value]

TwoCharOps ==
    {<<"=", "=">>, <<"!", "=">>, <<"&", "&">>, <<"|", "|">>,
     <<"<", "=">>, <<">", "=">>}

TwoCharType(two) ==
    CASE two = <<"=", "=">> -> "TokenEq"
      [] two = <<"!", "=">> -> "TokenNeq"
      [] two = <<"&", "&">> -> "TokenAnd"
      [] two = <<"|", "|">> -> "TokenOr"
      [] two = <<"<", "=">> -> "TokenLte"
      [] two = <<">", "=">> -> "TokenGte"

OneCharOps == {"(", ")", ",", "!", "<", ">"}

OneCharType(c) ==
    CASE c = "(" -> "TokenLParen"
      [] c = ")" -> "TokenRParen"
      [] c = "," -> "TokenComma"
      [] c = "!" -> "TokenNot"
      [] c = "<" -> "TokenLt"
      [] c = ">" -> "TokenGt"

\* first offset >= i whose character does not satisfy the scan of that token
RECURSIVE ScanString(_, _)
ScanString(r, i) ==
    IF i < Len(r) /\ r[i + 1] # "'" THEN ScanString(r, i + 1) ELSE i

RECURSIVE ScanNumber(_, _)
ScanNumber(r, i) ==
    IF i < Len(r) /\ (IsDigit(r[i + 1]) \/ r[i + 1] = ".")
    THEN ScanNumber(r, i + 1)
    ELSE i

RECURSIVE ScanIdent(_, _)
ScanIdent(r, i) ==
    IF i < Len(r)
       /\ (IsLetter(r[i + 1]) \/ IsDigit(r[i + 1]) \/ r[i + 1] = "_" \/ r[i + 1] = ".")
    THEN ScanIdent(r, i + 1)
    ELSE i

KeywordToken(value) ==
    LET low == ToLower(value)
    IN  CASE low = <<"t", "r", "u", "e">> -> Tok("TokenBool", <<"t", "r", "u", "e">>)
          [] low = <<"f", "a", "l", "s", "e">> -> Tok("TokenBool", <<"f", "a", "l", "s", "e">>)
          [] low = <<"n", "u", "l", "l">> -> Tok("TokenNull", <<"n", "u", "l", "l">>)
          [] OTHER -> Tok("TokenIdent", value)

\* tokenize: i is the 0-based offset into r, tokens the list built so far
RECURSIVE tokenizeFrom(_, _, _)
tokenizeFrom(r, i, tokens) ==
    IF i >= Len(r)
    THEN [err |-> "", tokens |-> Append(tokens, Tok("TokenEOF", <<>>))]
    ELSE
    LET c == r[i + 1]
    IN  IF IsSpace(c) THEN tokenizeFrom(r, i + 1, tokens)
        ELSE IF i + 1 < Len(r) /\ Slice(r, i, i + 2) \in TwoCharOps
        THEN tokenizeFrom(r, i + 2,
                 Append(tokens, Tok(TwoCharType(Slice(r, i, i + 2)), Slice(r, i, i + 2))))
        ELSE IF c \in OneCharOps
        THEN tokenizeFrom(r, i + 1, Append(tokens, Tok(OneCharType(c), <<c>>)))
        ELSE IF c = "'"
        THEN LET j == ScanString(r, i + 1)
             IN  IF j >= Len(r)
                 THEN [err |-> "unterminated string", tokens |-> <<>>]
                 ELSE tokenizeFrom(r, j + 1,
                          Append(tokens, Tok("TokenString", Slice(r, i + 1, j))))
        ELSE IF IsDigit(c) \/ (c = "-" /\ i + 1 < Len(r) /\ IsDigit(r[i + 2]))
        THEN LET j == ScanNumber(r, IF c = "-" THEN i + 1 ELSE i)
             IN  tokenizeFrom(r, j, Append(tokens, Tok("TokenNumber", Slice(r, i, j))))
        ELSE IF IsLetter(c) \/ c = "_"
        THEN LET j == ScanIdent(r, i)
             IN  tokenizeFrom(r, j, Append(tokens, KeywordToken(Slice(r, i, j))))
        ELSE [err |-> "unexpected character", tokens |-> <<>>]

tokenize(expr) == tokenizeFrom(expr, 0, <<>>)

-----------------------------------------------------------------------------
(* Parser                                                                  *)

NoNode == [kind |-> "none"]

POk(node, pos) == [err |-> "", node |-> node, pos |-> pos]

PErr(msg, pos) == [err |-> msg, node |-> NoNode, pos |-> pos]

\* parser.current: pos is the 0-based index into tokens
current(tokens, pos) ==
    IF pos >= Len(tokens) THEN Tok("TokenEOF", <<>>) ELSE tokens[pos + 1]

DigitValue(c) ==
    CASE c = "0" -> 0 [] c = "1" -> 1 [] c = "2" -> 2 [] c = "3" -> 3
      [] c = "4" -> 4 [] c = "5" -> 5 [] c = "6" -> 6 [] c = "7" -> 7
      [] c = "8" -> 8 [] c = "9" -> 9

RECURSIVE ScanDigits(_, _, _)
ScanDigits(s, i, acc) ==
    IF i < Len(s) /\ IsDigit(s[i + 1])
    THEN ScanDigits(s, i + 1, [n |-> 10 * acc.n + DigitValue(s[i + 1]), i |-> i + 1])
    ELSE acc

\* fmt.Sscanf(t.Value, "%f", &num): the value in tenths (numerals of the model
\* carry at most one fractional digit); scanning stops at a second dot
ParseFloat(s) ==
    LET neg  == s # <<>> /\ s[1] = "-"
        int  == ScanDigits(s, IF neg THEN 1 ELSE 0, [n |-> 0, i |-> IF neg THEN 1 ELSE 0])
        frac == IF int.i + 1 < Len(s) /\ s[int.i + 1] = "." /\ IsDigit(s[int.i + 2])
                THEN DigitValue(s[int.i + 2])
                ELSE 0
        abs  == 10 * int.n + frac
    IN  IF neg THEN 0 - abs ELSE abs

VBool(b) == [t |-> "bool", b |-> b]

VStr(s) == [t |-> "str", s |-> s]

VNum(n) == [t |-> "num", n |-> n]

VNil == [t |-> "nil"]

RECURSIVE parseOr(_, _)
RECURSIVE parseOrLoop(_, _, _)
RECURSIVE parseAnd(_, _)
RECURSIVE parseAndLoop(_, _, _)
RECURSIVE parseEquality(_, _)
RECURSIVE parseEqualityLoop(_, _, _)
RECURSIVE parseComparison(_, _)
RECURSIVE parseComparisonLoop(_, _, _)
RECURSIVE parseUnary(_, _)
RECURSIVE parsePrimary(_, _)
RECURSIVE parseFunctionCall(_, _, _, _)

BinaryOpNode(op, left, right) ==
    [kind |-> "BinaryOp", Op |-> op, Left |-> left, Right |-> right]

\* left, err := p.parseAnd(); if err != nil { return nil, err }; then the loop
parseOrLeft(tokens, l) ==
    IF l.err # "" THEN l ELSE parseOrLoop(tokens, l.node, l.pos)

parseOr(tokens, pos) == parseOrLeft(tokens, parseAnd(tokens, pos))

\* right, err := p.parseAnd(); if err != nil { return nil, err }; left = &BinaryOpNode{...}
parseOrRight(tokens, left, r) ==
    IF r.err # "" THEN r
    ELSE parseOrLoop(tokens, BinaryOpNode("||", left, r.node), r.pos)

parseOrLoop(tokens, left, pos) ==
    IF current(tokens, pos).Type = "TokenOr"
    THEN parseOrRight(tokens, left, parseAnd(tokens, pos + 1))
    ELSE POk(left, pos)

parseAndLeft(tokens, l) ==
    IF l.err # "" THEN l ELSE parseAndLoop(tokens, l.node, l.pos)

parseAnd(tokens, pos) == parseAndLeft(tokens, parseEquality(tokens, pos))

parseAndRight(tokens, left, r) ==
    IF r.err # "" THEN r
    ELSE parseAndLoop(tokens, BinaryOpNode("&&", left, r.node), r.pos)

parseAndLoop(tokens, left, pos) ==
    IF current(tokens, pos).Type = "TokenAnd"
    THEN parseAndRight(tokens, left, parseEquality(tokens, pos + 1))
    ELSE POk(left, pos)

parseEqualityLeft(tokens, l) ==
    IF l.err # "" THEN l ELSE parseEqualityLoop(tokens, l.node, l.pos)

parseEquality(tokens, pos) == parseEqualityLeft(tokens, parseComparison(tokens, pos))

parseEqualityRight(tokens, op, left, r) ==
    IF r.err # "" THEN r
    ELSE parseEqualityLoop(tokens, BinaryOpNode(op, left, r.node), r.pos)

parseEqualityLoop(tokens, left, pos) ==
    IF current(tokens, pos).Type \in {"TokenEq", "TokenNeq"}
    THEN parseEqualityRight(tokens,
             IF current(tokens, pos).Type = "TokenEq" THEN "==" ELSE "!=",
             left, parseComparison(tokens, pos + 1))
    ELSE POk(left, pos)

parseComparisonLeft(tokens, l) ==
    IF l.err # "" THEN l ELSE parseComparisonLoop(tokens, l.node, l.pos)

parseComparison(tokens, pos) == parseComparisonLeft(tokens, parseUnary(tokens, pos))

parseComparisonRight(tokens, op, left, r) ==
    IF r.err # "" THEN r
    ELSE parseComparisonLoop(tokens, BinaryOpNode(op, left, r.node), r.pos)

ComparisonOp(ty) ==
    CASE ty = "TokenLt" -> "<" [] ty = "TokenGt" -> ">"
      [] ty = "TokenLte" -> "<=" [] ty = "TokenGte" -> ">="

parseComparisonLoop(tokens, left, pos) ==
    IF current(tokens, pos).Type \in {"TokenLt", "TokenGt", "TokenLte", "TokenGte"}
    THEN parseComparisonRight(tokens, ComparisonOp(current(tokens, pos).Type),
             left, parseUnary(tokens, pos + 1))
    ELSE POk(left, pos)

\* operand, err := p.parseUnary(); if err != nil { return nil, err }
parseUnaryOperand(o) ==
    IF o.err # "" THEN o
    ELSE POk([kind |-> "UnaryOp", Op |-> "!", Operand |-> o.node], o.pos)

parseUnary(tokens, pos) ==
    IF current(tokens, pos).Type = "TokenNot"
    THEN parseUnaryOperand(parseUnary(tokens, pos + 1))
    ELSE parsePrimary(tokens, pos)

\* node, err := p.parseOr(); then the closing parenthesis is required
parseParenthesized(tokens, n) ==
    IF n.err # "" THEN n
    ELSE IF current(tokens, n.pos).Type # "TokenRParen"
    THEN PErr("expected closing paren", n.pos)
    ELSE POk(n.node, n.pos + 1)

\* the token kinds of parsePrimary that are neither a call nor a parenthesis
parseAtom(t, pos) ==
    CASE t.Type = "TokenString" ->
           POk([kind |-> "Literal", Value |-> VStr(t.Value)], pos + 1)
      [] t.Type = "TokenNumber" ->
           POk([kind |-> "Literal", Value |-> VNum(ParseFloat(t.Value))], pos + 1)
      [] t.Type = "TokenBool" ->
           POk([kind |-> "Literal",
                Value |-> VBool(t.Value = <<"t", "r", "u", "e">>)], pos + 1)
      [] t.Type = "TokenNull" ->
           POk([kind |-> "Literal", Value |-> VNil], pos + 1)
      [] t.Type = "TokenIdent" ->
           POk([kind |-> "ContextAccess", Path |-> t.Value], pos + 1)
      [] OTHER -> PErr("unexpected token", pos)

parsePrimary(tokens, pos) ==
    IF current(tokens, pos).Type = "TokenLParen"
    THEN parseParenthesized(tokens, parseOr(tokens, pos + 1))
    ELSE IF current(tokens, pos).Type = "TokenIdent"
            /\ current(tokens, pos + 1).Type = "TokenLParen"
    THEN parseFunctionCall(tokens, current(tokens, pos).Value, pos + 2, <<>>)
    ELSE parseAtom(current(tokens, pos), pos)

\* arg, err := p.parseOr(); if err != nil { return nil, err }; a comma is skipped
parseArgument(tokens, name, args, a) ==
    IF a.err # "" THEN a
    ELSE parseFunctionCall(tokens, name,
             IF current(tokens, a.pos).Type = "TokenComma" THEN a.pos + 1 ELSE a.pos,
             Append(args, a.node))

\* the argument loop of parseFunctionCall; pos is past the '('
parseFunctionCall(tokens, name, pos, args) ==
    IF current(tokens, pos).Type # "TokenRParen"
    THEN parseArgument(tokens, name, args, parseOr(tokens, pos))
    ELSE POk([kind |-> "FunctionCall", Name |-> name, Args |-> args], pos + 1)

parse(tokens) == parseOr(tokens, 0)

-----------------------------------------------------------------------------
(* Trigger context                                                         *)

VList(l) == [t |-> "list", l |-> l]

VMap(m) == [t |-> "map", m |-> m]

Found(v) == [found |-> TRUE, value |-> v, panic |-> FALSE]

NotFound == [found |-> FALSE, value |-> VNil, panic |-> FALSE]

\* an index expression on a slice that is too short: a run-time panic
LookupPanic == [found |-> FALSE, value |-> VNil, panic |-> TRUE]

\* v, ok := m[k] on a map[string]string
MapGet(m, k) == IF k \in DOMAIN m THEN Found(VStr(m[k])) ELSE NotFound

RECURSIVE splitPathFrom(_, _, _)
splitPathFrom(path, cur, parts) ==
    IF path = <<>>
    THEN IF cur # <<>> THEN Append(parts, cur) ELSE parts
    ELSE IF Head(path) = "."
    THEN splitPathFrom(Tail(path), <<>>, IF cur # <<>> THEN Append(parts, cur) ELSE parts)
    ELSE splitPathFrom(Tail(path), Append(cur, Head(path)), parts)

splitPath(path) == splitPathFrom(path, <<>>, <<>>)

RECURSIVE lookupMap(_, _)
lookupMap(m, parts) ==
    IF Len(parts) = 0 THEN Found(VMap(m))
    ELSE IF parts[1] \notin DOMAIN m THEN NotFound
    ELSE IF Len(parts) = 1 THEN Found(m[parts[1]])
    ELSE IF m[parts[1]].t = "map" THEN lookupMap(m[parts[1]].m, Tail(parts))
    ELSE NotFound

lookupGitHub(c, parts) ==
    IF Len(parts) = 0 THEN NotFound
    ELSE CASE parts[1] = <<"e", "v", "e", "n", "t", "_", "n", "a", "m", "e">> ->
                Found(VStr(c.GitHub.EventName))
           [] parts[1] = <<"r", "e", "f">> -> Found(VStr(c.GitHub.Ref))
           [] parts[1] = <<"s", "h", "a">> -> Found(VStr(c.GitHub.SHA))
           [] parts[1] = <<"a", "c", "t", "o", "r">> -> Found(VStr(c.GitHub.Actor))
           [] parts[1] = <<"r", "e", "p", "o", "s", "i", "t", "o", "r", "y">> ->
                Found(VStr(c.GitHub.Repository))
           [] parts[1] = <<"w", "o", "r", "k", "s", "p", "a", "c", "e">> ->
                Found(VStr(c.GitHub.Workspace))
           [] parts[1] = <<"e", "v", "e", "n", "t">> ->
                IF Len(parts) = 1 THEN Found(VMap(c.GitHub.Event))
                ELSE lookupMap(c.GitHub.Event, Tail(parts))
           [] OTHER -> NotFound

lookupJobs(c, parts) ==
    IF Len(parts) > 2 THEN NotFound
    ELSE IF Len(parts) = 0 THEN LookupPanic          \* parts[0]
    ELSE IF parts[1] \notin DOMAIN c.Jobs THEN NotFound
    ELSE IF Len(parts) = 1 THEN LookupPanic          \* parts[1]
    ELSE IF parts[2] = <<"s", "t", "a", "t", "u", "s">>
    THEN Found(VStr(c.Jobs[parts[1]].Status))
    ELSE IF parts[2] = <<"o", "u", "t", "p", "u", "t", "s">> /\ Len(parts) = 3
    THEN MapGet(c.Jobs[parts[1]].Outputs, parts[3])
    ELSE NotFound

lookupSteps(c, parts) ==
    IF Len(parts) < 2 THEN NotFound
    ELSE IF parts[1] \notin DOMAIN c.Steps THEN NotFound
    ELSE IF parts[2] = <<"o", "u", "t", "c", "o", "m", "e">>
    THEN Found(VStr(c.Steps[parts[1]].Outcome))
    ELSE IF parts[2] = <<"o", "u", "t", "p", "u", "t", "s">> /\ Len(parts) = 3
    THEN MapGet(c.Steps[parts[1]].Outputs, parts[3])
    ELSE NotFound

Lookup(c, path) ==
    LET parts == splitPath(path)
    IN  IF Len(parts) = 0 THEN NotFound
        ELSE CASE parts[1] = <<"g", "i", "t", "h", "u", "b">> ->
                    lookupGitHub(c, Tail(parts))
               [] parts[1] = <<"e", "n", "v">> ->
                    IF Len(parts) = 2 THEN MapGet(c.Env, parts[2]) ELSE NotFound
               [] parts[1] = <<"s", "e", "c", "r", "e", "t", "s">> ->
                    IF Len(parts) = 2 THEN MapGet(c.Secrets, parts[2]) ELSE NotFound
               [] parts[1] = <<"j", "o", "b", "s">> -> lookupJobs(c, Tail(parts))
               [] parts[1] = <<"s", "t", "e", "p", "s">> -> lookupSteps(c, Tail(parts))
               [] parts[1] = <<"m", "a", "t", "r", "i", "x">> ->
                    IF Len(parts) = 2 /\ parts[2] \in DOMAIN c.Matrix
                    THEN Found(c.Matrix[parts[2]])
                    ELSE NotFound
               [] OTHER -> NotFound

-----------------------------------------------------------------------------
(* Evaluator                                                               *)

RECURSIVE NatToStr(_)
NatToStr(n) ==
    LET d == CHOOSE c \in Digits : DigitValue(c) = n % 10
    IN  IF n < 10 THEN <<d>> ELSE Append(NatToStr(n \div 10), d)

\* fmt.Sprintf("%v", f) of a float64 held in tenths
FormatNum(n) ==
    LET abs  == IF n < 0 THEN 0 - n ELSE n
        body == NatToStr(abs \div 10)
                \o (IF abs % 10 = 0 THEN <<>> ELSE <<".">> \o NatToStr(abs % 10))
    IN  IF n < 0 THEN <<"-">> \o body ELSE body

toString(v) ==
    CASE v.t = "nil"  -> <<>>
      [] v.t = "bool" -> IF v.b THEN <<"t", "r", "u", "e">> ELSE <<"f", "a", "l", "s", "e">>
      [] v.t = "str"  -> v.s
      [] v.t = "num"  -> FormatNum(v.n)
      [] v.t = "list" -> <<"[...]">>
      [] v.t = "map"  -> <<"map[...]">>

\* a truthiness in which the number zero is false
toBool_zeroFalse(v) ==
    CASE v.t = "bool" -> v.b
      [] v.t = "str"  -> v.s # <<>>
      [] v.t = "nil"  -> FALSE
      [] v.t = "num"  -> v.n # 0
      [] OTHER        -> TRUE

\* case int, int64, float64: return val != 0 compares the interface value val
\* with the int constant 0; a number of the model is a float64 (every number
\* literal is), which never equals an int, so every number is true
toBool(v) ==
    CASE v.t = "bool" -> v.b
      [] v.t = "str"  -> v.s # <<>>
      [] v.t = "nil"  -> FALSE
      [] v.t = "num"  -> TRUE
      [] OTHER        -> TRUE

\* in tenths
toFloat(v) == IF v.t = "num" THEN v.n ELSE 0

equals(a, b) == toString(a) = toString(b)

formatValue(v) ==
    CASE v.t = "nil"  -> <<"n", "u", "l", "l">>
      [] v.t = "bool" -> toString(v)
      [] v.t = "str"  -> <<"'">> \o v.s \o <<"'">>
      [] OTHER        -> toString(v)

applyBinaryOp(op, left, right) ==
    CASE op = "==" -> VBool(equals(left, right))
      [] op = "!=" -> VBool(~equals(left, right))
      [] op = "&&" -> VBool(toBool(left) /\ toBool(right))
      [] op = "||" -> VBool(toBool(left) \/ toBool(right))
      [] op = "<"  -> VBool(toFloat(left) < toFloat(right))
      [] op = ">"  -> VBool(toFloat(left) > toFloat(right))
      [] op = "<=" -> VBool(toFloat(left) <= toFloat(right))
      [] op = ">=" -> VBool(toFloat(left) >= toFloat(right))
      [] OTHER     -> VNil

applyUnaryOp(op, operand) == IF op = "!" THEN VBool(~toBool(operand)) ELSE VNil

RECURSIVE formatStringFrom(_, _, _)
formatStringFrom(result, args, i) ==
    IF i >= Len(args) THEN result
    ELSE formatStringFrom(
             ReplaceAll(result, <<"{">> \o NatToStr(i) \o <<"}">>, toString(args[i + 1])),
             args, i + 1)

formatString(format, args) == formatStringFrom(format, args, 0)

joinArray(v, sep) ==
    IF v.t = "list"
    THEN Join([i \in 1..Len(v.l) |-> toString(v.l[i])], sep)
    ELSE toString(v)

FOk(v) == [err |-> "", value |-> v]

FErr(msg) == [err |-> msg, value |-> VNil]

callFunction(name, args) ==
    CASE name = <<"c", "o", "n", "t", "a", "i", "n", "s">> ->
           IF Len(args) # 2 THEN FErr("contains requires 2 arguments")
           ELSE FOk(VBool(Contains(toString(args[1]), toString(args[2]))))
      [] name = <<"s", "t", "a", "r", "t", "s", "W", "i", "t", "h">> ->
           IF Len(args) # 2 THEN FErr("startsWith requires 2 arguments")
           ELSE FOk(VBool(HasPrefix(toString(args[1]), toString(args[2]))))
      [] name = <<"e", "n", "d", "s", "W", "i", "t", "h">> ->
           IF Len(args) # 2 THEN FErr("endsWith requires 2 arguments")
           ELSE FOk(VBool(HasSuffix(toString(args[1]), toString(args[2]))))
      [] name = <<"f", "o", "r", "m", "a", "t">> ->
           IF Len(args) < 1 THEN FErr("format requires at least 1 argument")
           ELSE FOk(VStr(formatString(toString(args[1]), Tail(args))))
      [] name = <<"j", "o", "i", "n">> ->
           IF Len(args) < 1 \/ Len(args) > 2 THEN FErr("join requires 1 or 2 arguments")
           ELSE FOk(VStr(joinArray(args[1],
                        IF Len(args) = 2 THEN toString(args[2]) ELSE <<",">>)))
      [] name = <<"a", "l", "w", "a", "y", "s">> -> FOk(VBool(TRUE))
      [] name = <<"s", "u", "c", "c", "e", "s", "s">> -> FOk(VBool(TRUE))
      [] name = <<"f", "a", "i", "l", "u", "r", "e">> -> FOk(VBool(FALSE))
      [] name = <<"c", "a", "n", "c", "e", "l", "l", "e", "d">> -> FOk(VBool(FALSE))
      [] OTHER -> FErr("unknown function")

\* The outcome of eval: st = "ok" (a Result), "err" (an error), "nil" (neither a
\* Result nor an error) or "panic" (a nil Result was dereferenced, or Lookup
\* indexed past the end of its path).
EOk(v, trace) == [st |-> "ok", Value |-> v, Trace |-> trace, err |-> <<>>]

EErr(msg) == [st |-> "err", Value |-> VNil, Trace |-> <<>>, err |-> msg]

ENil == [st |-> "nil", Value |-> VNil, Trace |-> <<>>, err |-> <<>>]

EPanic == [st |-> "panic", Value |-> VNil, Trace |-> <<>>, err |-> <<>>]

\* What eval returns for a node kind its type switch has no case for (the unary
\* node): the function body ends without a return statement, so the build
\* decides between an error and a nil Result.
UnhandledNode == {"error", "nil"}

RECURSIVE eval(_, _, _)
RECURSIVE evalArgs(_, _, _, _, _, _)

eval(c, node, build) ==
    CASE node.kind = "Literal" -> EOk(node.Value, formatValue(node.Value))
      [] node.kind = "ContextAccess" ->
           LET r == Lookup(c, node.Path)
           IN  IF r.panic THEN EPanic
               ELSE IF ~r.found
               THEN EOk(VNil, node.Path \o <<" ", "-", ">", " ", "n", "u", "l", "l">>)
               ELSE EOk(r.value, node.Path \o <<" ", "-", ">", " ">> \o formatValue(r.value))
      [] node.kind = "BinaryOp" ->
           LET left == eval(c, node.Left, build)
           IN  IF left.st \in {"err", "panic"} THEN left
               ELSE LET right == eval(c, node.Right, build)
                    IN  IF right.st \in {"err", "panic"} THEN right
                        ELSE IF left.st = "nil" \/ right.st = "nil" THEN EPanic
                        ELSE LET result == applyBinaryOp(node.Op, left.Value, right.Value)
                             IN  EOk(result,
                                     left.Trace \o <<" ", node.Op, " ">> \o right.Trace
                                     \o <<" ", "-", ">", " ">> \o formatValue(result))
      [] node.kind = "FunctionCall" ->
           evalArgs(c, node.Name, node.Args, <<>>, <<>>, build)
      [] OTHER -> IF build = "error" THEN EErr(<<"unknown node">>) ELSE ENil

\* the argument loop of the function-call case, then callFunction
evalArgs(c, name, rest, args, argTraces, build) ==
    IF rest # <<>>
    THEN LET r == eval(c, Head(rest), build)
         IN  IF r.st \in {"err", "panic"} THEN r
             ELSE IF r.st = "nil" THEN EPanic
             ELSE evalArgs(c, name, Tail(rest), Append(args, r.Value),
                           Append(argTraces, r.Trace), build)
    ELSE LET f == callFunction(name, args)
         IN  IF f.err # "" THEN EErr(<<f.err>>)
             ELSE EOk(f.value,
                      name \o <<"(">> \o Join(argTraces, <<",", " ">>) \o <<")">>
                      \o <<" ", "-", ">", " ">> \o formatValue(f.value))

\* Evaluator.Evaluate
Evaluate(c, expression, build) ==
    LET trimmed == TrimSpace(expression)
        expr    == IF HasPrefix(trimmed, <<"$", "{", "{">>) /\ HasSuffix(trimmed, <<"}", "}">>)
                   THEN TrimSpace(Slice(trimmed, 3, Len(trimmed) - 2))
                   ELSE trimmed
        toks    == tokenize(expr)
    IN  IF toks.err # "" THEN EErr(<<"tokenize: ", toks.err>>)
        ELSE LET p == parse(toks.tokens)
             IN  IF p.err # "" THEN EErr(<<"parsing: ", p.err>>)
                 ELSE eval(c, p.node, build)

-----------------------------------------------------------------------------
(* Workflow definitions                                                    *)

SUCCESS == <<"s", "u", "c", "c", "e", "s", "s">>

SKIPPED == <<"s", "k", "i", "p", "p", "e", "d">>

\* the zero value of Job: what a.workflow.Jobs[name] yields for an absent key
ZeroJob ==
    [Name |-> <<>>, Needs |-> <<>>, If |-> <<>>, Env |-> <<>>, Steps |-> <<>>,
     Outputs |-> <<>>]

\* job := workflow.Jobs[name]
JobOf(w, name) == IF name \in DOMAIN w.Jobs THEN w.Jobs[name] ELSE ZeroJob

-----------------------------------------------------------------------------
(* Analyzer                                                                *)

NoCondition == [set |-> FALSE, Expression |-> <<>>, Value |-> FALSE, Trace |-> <<>>]

\* the ConditionResult evaluateCondition builds from what Evaluate handed back;
\* panic when Evaluate panicked or handed back neither a Result nor an error
\* (result.Value on a nil Result)
\* a ConditionResult that applies the truthiness of the logical operators
conditionResult_truthy(expr, r) ==
    CASE r.st = "err" ->
           [panic |-> FALSE,
            cond  |-> [set |-> TRUE, Expression |-> expr, Value |-> FALSE,
                       Trace |-> <<"error: ">> \o r.err]]
      [] r.st = "ok" ->
           [panic |-> FALSE,
            cond  |-> [set |-> TRUE, Expression |-> expr,
                       Value |-> toBool(r.Value),
                       Trace |-> r.Trace]]
      [] OTHER -> [panic |-> TRUE, cond |-> NoCondition]

\* the ConditionResult for what Evaluate returned: the value is true only for
\* the boolean true
conditionResult(expr, r) ==
    CASE r.st = "err" ->
           [panic |-> FALSE,
            cond  |-> [set |-> TRUE, Expression |-> expr, Value |-> FALSE,
                       Trace |-> <<"error: ">> \o r.err]]
      [] r.st = "ok" ->
           [panic |-> FALSE,
            cond  |-> [set |-> TRUE, Expression |-> expr,
                       Value |-> IF r.Value.t = "bool" THEN r.Value.b ELSE FALSE,
                       Trace |-> r.Trace]]
      [] OTHER -> [panic |-> TRUE, cond |-> NoCondition]

\* Analyzer.evaluateCondition
evaluateCondition(c, expr, build) == conditionResult(expr, Evaluate(c, expr, build))

\* if x.If != "" { condResult := a.evaluateCondition(ctx, x.If) ... }
conditionIfAny(c, if, build) ==
    IF if # <<>> THEN evaluateCondition(c, if, build)
    ELSE [panic |-> FALSE, cond |-> NoCondition]

MaxNameLen == 40

\* truncate(s, max): the first line, cut to max characters with an ellipsis
truncate(s, max) ==
    LET nl    == Index(s, <<"\n">>)
        first == IF nl >= 0 THEN Slice(s, 0, nl) ELSE s
    IN  IF Len(first) > max
        THEN Slice(first, 0, max - 3) \o <<".", ".", ".">>
        ELSE first

\* a StepResult whose would-run flag is the value of the condition even when
\* the step has none
stepResult_valueOnly(step, ec) ==
    [panic |-> ec.panic,
     step  |-> [Name      |-> IF step.Name # <<>> THEN step.Name
                              ELSE IF step.Run # <<>> THEN truncate(step.Run, MaxNameLen)
                              ELSE IF step.Uses # <<>> THEN step.Uses
                              ELSE <<>>,
                Type      |-> IF step.Uses # <<>> THEN "action" ELSE "run",
                Action    |-> step.Uses,
                Command   |-> step.Run,
                Condition |-> ec.cond,
                WouldRun  |-> ec.cond.Value]]

\* the StepResult of analyzeStep, ec being the outcome of its condition
stepResult(step, ec) ==
    [panic |-> ec.panic,
     step  |-> [Name      |-> IF step.Name # <<>> THEN step.Name
                              ELSE IF step.Run # <<>> THEN truncate(step.Run, MaxNameLen)
                              ELSE IF step.Uses # <<>> THEN step.Uses
                              ELSE <<>>,
                Type      |-> IF step.Uses # <<>> THEN "action" ELSE "run",
                Action    |-> step.Uses,
                Command   |-> step.Run,
                Condition |-> ec.cond,
                WouldRun  |-> IF step.If # <<>> THEN ec.cond.Value ELSE TRUE]]

\* Analyzer.analyzeStep
analyzeStep(c, step, build) == stepResult(step, conditionIfAny(c, step.If, build))

\* the dependency loop of analyzeJob: the first dependency, in needs order,
\* that is recorded in the context with a status other than success
RECURSIVE firstUnsatisfied(_, _)

\* a dependency loop without the break: the last such dependency wins
firstUnsatisfied_noBreak(c, needs) ==
    LET bad == {i \in 1..Len(needs) :
                   needs[i] \in DOMAIN c.Jobs /\ c.Jobs[needs[i]].Status # SUCCESS}
    IN  IF bad = {} THEN [found |-> FALSE, dep |-> <<>>]
        ELSE [found |-> TRUE, dep |-> needs[CHOOSE i \in bad : \A j \in bad : j <= i]]

firstUnsatisfied(c, needs) ==
    IF needs = <<>> THEN [found |-> FALSE, dep |-> <<>>]
    ELSE IF Head(needs) \in DOMAIN c.Jobs /\ c.Jobs[Head(needs)].Status # SUCCESS
    THEN [found |-> TRUE, dep |-> Head(needs)]
    ELSE firstUnsatisfied(c, Tail(needs))

\* a JobResult that gives no reason for a false condition
jobResult_noConditionReason(name, job, unsat, ec, steps) ==
    LET needsSatisfied == ~unsat.found
        depReason      == IF unsat.found
                          THEN <<"dependency '">> \o unsat.dep \o <<"' was skipped">>
                          ELSE <<>>
        wouldRun       == IF job.If # <<>>
                          THEN ec.cond.Value /\ needsSatisfied
                          ELSE needsSatisfied
        reason1        == depReason
        reason2        == IF ~needsSatisfied /\ reason1 = <<>>
                          THEN <<"dependency not satisfied">>
                          ELSE reason1
    IN  [panic  |-> ec.panic \/ \E i \in 1..Len(steps) : steps[i].panic,
         result |-> [Name       |-> name,
                     Needs      |-> job.Needs,
                     Condition  |-> ec.cond,
                     WouldRun   |-> wouldRun,
                     SkipReason |-> reason2,
                     Steps      |-> [i \in 1..Len(steps) |-> steps[i].step]]]

\* the JobResult of analyzeJob: unsat the outcome of its dependency loop, ec the
\* outcome of its condition, steps the outcomes of analyzeStep
jobResult(name, job, unsat, ec, steps) ==
    LET needsSatisfied == ~unsat.found
        depReason      == IF unsat.found
                          THEN <<"dependency '">> \o unsat.dep \o <<"' was skipped">>
                          ELSE <<>>
        wouldRun       == IF job.If # <<>>
                          THEN ec.cond.Value /\ needsSatisfied
                          ELSE needsSatisfied
        reason1        == IF job.If # <<>> /\ ~ec.cond.Value
                          THEN <<"condition evaluated to false">>
                          ELSE depReason
        reason2        == IF ~needsSatisfied /\ reason1 = <<>>
                          THEN <<"dependency not satisfied">>
                          ELSE reason1
    IN  [panic  |-> ec.panic \/ \E i \in 1..Len(steps) : steps[i].panic,
         result |-> [Name       |-> name,
                     Needs      |-> job.Needs,
                     Condition  |-> ec.cond,
                     WouldRun   |-> wouldRun,
                     SkipReason |-> reason2,
                     Steps      |-> [i \in 1..Len(steps) |-> steps[i].step]]]

\* Analyzer.analyzeJob
analyzeJob(c, name, job, build) ==
    jobResult(name, job, firstUnsatisfied(c, job.Needs),
              conditionIfAny(c, job.If, build),
              [i \in 1..Len(job.Steps) |-> analyzeStep(c, job.Steps[i], build)])

\* the closure visit of topologicalSort; st = [visited, order]
RECURSIVE visit(_, _, _)
RECURSIVE visitAll(_, _, _)

\* a visit that emits the job before its dependencies
visit_emitFirst(w, name, st) ==
    IF name \in st.visited THEN st
    ELSE visitAll(w, JobOf(w, name).Needs,
                  [visited |-> st.visited \cup {name}, order |-> Append(st.order, name)])

visit(w, name, st) ==
    IF name \in st.visited THEN st
    ELSE LET st1 == visitAll(w, JobOf(w, name).Needs,
                             [st EXCEPT !.visited = @ \cup {name}])
         IN  [st1 EXCEPT !.order = Append(@, name)]

visitAll(w, names, st) ==
    IF names = <<>> THEN st
    ELSE visitAll(w, Tail(names), visit(w, Head(names), st))

\* Analyzer.topologicalSort, the job map being ranged over in the order iter
topologicalSort(w, iter) == visitAll(w, iter, [visited |-> {}, order |-> <<>>]).order

-----------------------------------------------------------------------------
(* Executor: side-channel files and job outputs                            *)

\* the NUL byte
NUL == "\\x00"

\* m[k] = v on a Go map
MapSet(m, k, v) == [x \in DOMAIN m \cup {k} |-> IF x = k THEN v ELSE m[x]]

\* strings.Fields
RECURSIVE FieldsFrom(_, _, _)
FieldsFrom(s, cur, out) ==
    IF s = <<>>
    THEN IF cur # <<>> THEN Append(out, cur) ELSE out
    ELSE IF IsSpace(Head(s))
    THEN FieldsFrom(Tail(s), <<>>, IF cur # <<>> THEN Append(out, cur) ELSE out)
    ELSE FieldsFrom(Tail(s), Append(cur, Head(s)), out)

Fields(s) == FieldsFrom(s, <<>>, <<>>)

\* a line loop that assigns under an empty key too
RECURSIVE mergeLines_anyKey(_, _)
mergeLines_anyKey(m, lines) ==
    IF lines = <<>> THEN m
    ELSE LET line == TrimSpace(Head(lines))
             eq   == Index(line, <<"=">>)
             key  == TrimSpace(Slice(line, 0, eq))
             val  == TrimSpace(Slice(line, eq + 1, Len(line)))
         IN  IF line # <<>> /\ eq >= 0
             THEN mergeLines_anyKey(MapSet(m, key, val), Tail(lines))
             ELSE mergeLines_anyKey(m, Tail(lines))

\* the line loop shared by the GITHUB_ENV and GITHUB_OUTPUT branches of
\* processStepOutputFiles: the assignments of lines, applied to m in order
RECURSIVE mergeLines(_, _)
mergeLines(m, lines) ==
    IF lines = <<>> THEN m
    ELSE LET line == TrimSpace(Head(lines))
             eq   == Index(line, <<"=">>)
             key  == TrimSpace(Slice(line, 0, eq))
             val  == TrimSpace(Slice(line, eq + 1, Len(line)))
         IN  IF line # <<>> /\ eq >= 0 /\ key # <<>>
             THEN mergeLines(MapSet(m, key, val), Tail(lines))
             ELSE mergeLines(m, Tail(lines))

\* a body that starts from an empty map instead of the map held so far
mergeContent_fresh(m, content) ==
    LET contentStr == ReplaceAll(TrimSpace(content), <<NUL>>, <<>>)
    IN  IF contentStr # <<>> THEN mergeLines(<<>>, Split(contentStr, "\n")) ELSE m

\* the body run on the content of one side-channel file
mergeContent(m, content) ==
    LET contentStr == ReplaceAll(TrimSpace(content), <<NUL>>, <<>>)
    IN  IF contentStr # <<>> THEN mergeLines(m, Split(contentStr, "\n")) ELSE m

\* a lookup that hands back what it cannot resolve
outputValue_keep(rt, expression, expr, parts) ==
    IF HasPrefix(expr, <<"s", "t", "e", "p", "s", ".">>)
       /\ Contains(expr, <<".", "o", "u", "t", "p", "u", "t", "s", ".">>)
       /\ Len(parts) >= 4 /\ parts[1] = <<"s", "t", "e", "p", "s">>
       /\ parts[3] = <<"o", "u", "t", "p", "u", "t", "s">>
       /\ parts[2] \in DOMAIN rt.StepOutputs
       /\ parts[4] \in DOMAIN rt.StepOutputs[parts[2]]
    THEN rt.StepOutputs[parts[2]][parts[4]]
    ELSE IF HasPrefix(expr, <<"e", "n", "v", ".">>)
    THEN IF Slice(expr, 4, Len(expr)) \in DOMAIN rt.DynamicEnv
         THEN rt.DynamicEnv[Slice(expr, 4, Len(expr))]
         ELSE <<>>
    ELSE expression

\* the lookup of evaluateOutputExpression: expr the expression without its
\* ${{ }} wrapper, parts == Split(expr, ".")
outputValue(rt, expression, expr, parts) ==
    IF HasPrefix(expr, <<"s", "t", "e", "p", "s", ".">>)
       /\ Contains(expr, <<".", "o", "u", "t", "p", "u", "t", "s", ".">>)
       /\ Len(parts) >= 4 /\ parts[1] = <<"s", "t", "e", "p", "s">>
       /\ parts[3] = <<"o", "u", "t", "p", "u", "t", "s">>
       /\ parts[2] \in DOMAIN rt.StepOutputs
       /\ parts[4] \in DOMAIN rt.StepOutputs[parts[2]]
    THEN rt.StepOutputs[parts[2]][parts[4]]
    ELSE IF HasPrefix(expr, <<"e", "n", "v", ".">>)
    THEN IF Slice(expr, 4, Len(expr)) \in DOMAIN rt.DynamicEnv
         THEN rt.DynamicEnv[Slice(expr, 4, Len(expr))]
         ELSE <<>>
    ELSE IF HasPrefix(expr, <<"s", "t", "e", "p", "s", ".">>) THEN <<>>
    ELSE expression

\* the expression without its ${{ }} wrapper, its fields joined by one space
unwrapOutputExpression(trimmed) ==
    IF HasPrefix(trimmed, <<"$", "{", "{">>) /\ HasSuffix(trimmed, <<"}", "}">>)
    THEN Join(Fields(TrimSpace(Slice(trimmed, 3, Len(trimmed) - 2))), <<" ">>)
    ELSE trimmed

outputValueOf(rt, expression, expr) ==
    outputValue(rt, expression, expr, Split(expr, "."))

\* Executor.evaluateOutputExpression
evaluateOutputExpression(rt, expression) ==
    outputValueOf(rt, expression, unwrapOutputExpression(TrimSpace(expression)))

\* Executor.processJobOutputs: the Outputs of the job context afterwards
processJobOutputs(rt, job) ==
    [name \in DOMAIN job.Outputs |-> evaluateOutputExpression(rt, job.Outputs[name])]

-----------------------------------------------------------------------------
(* Step executors: the container configuration of a step                   *)

\* fmt.Sprintf("%s=%s", k, v) for the keys of m in the order the map yields them
EnvList(m, keys) == [i \in 1..Len(keys) |-> keys[i] \o <<"=">> \o m[keys[i]]]

\* the variables both executors append last
PlatformEnv ==
    <<<<"G", "I", "T", "H", "U", "B", "_", "W", "O", "R", "K", "S", "P", "A", "C", "E", "=", "/", "g", "i", "t", "h", "u", "b", "/", "w", "o", "r", "k", "s", "p", "a", "c", "e">>,
      <<"G", "I", "T", "H", "U", "B", "_", "A", "C", "T", "O", "R", "=", "r", "e", "h", "e", "a", "r", "s", "e">>,
      <<"G", "I", "T", "H", "U", "B", "_", "R", "E", "P", "O", "S", "I", "T", "O", "R", "Y", "=", "l", "o", "c", "a", "l", "/", "r", "e", "p", "o">>,
      <<"R", "U", "N", "N", "E", "R", "_", "O", "S", "=", "L", "i", "n", "u", "x">>,
      <<"R", "U", "N", "N", "E", "R", "_", "A", "R", "C", "H", "=", "X", "6", "4">>>>

\* what ShellStepExecutor.Execute appends when the run has a scratch directory
SideChannelEnv ==
    <<<<"G", "I", "T", "H", "U", "B", "_", "E", "N", "V", "=", "/", "g", "i", "t", "h", "u", "b", "/", "e", "n", "v", "/", "G", "I", "T", "H", "U", "B", "_", "E", "N", "V">>,
      <<"G", "I", "T", "H", "U", "B", "_", "O", "U", "T", "P", "U", "T", "=", "/", "g", "i", "t", "h", "u", "b", "/", "e", "n", "v", "/", "G", "I", "T", "H", "U", "B", "_", "O", "U", "T", "P", "U", "T">>>>

\* an environment list with the step layer first
buildEnvironment_stepFirst(step, jobEnv, dynamicEnv, iter) ==
    EnvList(step.Env, iter.step) \o EnvList(jobEnv, iter.job)
        \o EnvList(dynamicEnv, iter.dyn) \o PlatformEnv

\* ShellStepExecutor.buildEnvironment; iter holds the order in which each of
\* the three maps is ranged over
buildEnvironment(step, jobEnv, dynamicEnv, iter) ==
    EnvList(jobEnv, iter.job) \o EnvList(dynamicEnv, iter.dyn)
        \o EnvList(step.Env, iter.step) \o PlatformEnv

\* ActionStepExecutor.buildActionEnvironment
buildActionEnvironment(step, jobEnv, iter) ==
    EnvList(jobEnv, iter.job) \o EnvList(step.Env, iter.step) \o PlatformEnv

\* the lookup of ShellStepExecutor.evaluateExpression; parts == Split(expression, ".")
expressionValue(rt, expression, parts) ==
    IF HasPrefix(expression, <<"s", "t", "e", "p", "s", ".">>)
       /\ Contains(expression, <<".", "o", "u", "t", "p", "u", "t", "s", ".">>)
       /\ Len(parts) >= 4 /\ parts[1] = <<"s", "t", "e", "p", "s">>
       /\ parts[3] = <<"o", "u", "t", "p", "u", "t", "s">>
       /\ parts[2] \in DOMAIN rt.StepOutputs
       /\ parts[4] \in DOMAIN rt.StepOutputs[parts[2]]
    THEN rt.StepOutputs[parts[2]][parts[4]]
    ELSE IF HasPrefix(expression, <<"e", "n", "v", ".">>)
            /\ Slice(expression, 4, Len(expression)) \in DOMAIN rt.DynamicEnv
    THEN rt.DynamicEnv[Slice(expression, 4, Len(expression))]
    ELSE <<>>

\* ShellStepExecutor.evaluateExpression
evaluateExpression(rt, expression) ==
    expressionValue(rt, expression, Split(expression, "."))

\* the passes of the loop of evaluateExpressions a call is followed for
MaxPasses == 4

\* the loop of ShellStepExecutor.evaluateExpressions on result: the string
\* returned and the number of substitutions made; done is FALSE when the loop
\* is still running after fuel passes
RECURSIVE substitute(_, _, _, _)
substituteSpan(rt, result, start, end, n, fuel) ==
    IF end = -1 THEN [result |-> result, count |-> n, done |-> TRUE]
    ELSE IF fuel = 0 THEN [result |-> result, count |-> n, done |-> FALSE]
    ELSE substitute(rt,
                    Slice(result, 0, start)
                        \o evaluateExpression(
                               rt, TrimSpace(Slice(result, start + 3, end + start)))
                        \o Slice(result, end + start + 2, Len(result)),
                    n + 1, fuel - 1)

substituteFrom(rt, result, start, n, fuel) ==
    IF start = -1 THEN [result |-> result, count |-> n, done |-> TRUE]
    ELSE substituteSpan(rt, result, start,
                        Index(Slice(result, start, Len(result)), <<"}", "}">>), n, fuel)

substitute(rt, result, n, fuel) ==
    substituteFrom(rt, result, Index(result, <<"$", "{", "{">>), n, fuel)

\* ShellStepExecutor.evaluateExpressions
evaluateExpressions(rt, input) == substitute(rt, input, 0, MaxPasses)

-----------------------------------------------------------------------------
(* State                                                                   *)

VARIABLES
    workflow,   \* the parsed Workflow: Jobs, job name -> Job
    build,      \* what eval yields for an unhandled node kind (UnhandledNode)
    call,       \* a call of a function on its own: its name, input and result
    peer,       \* a second Analyzer on the same workflow: its ctx, apc, order, aidx, plan
    ctx,        \* the trigger Context shared by Analyzer and Evaluator
    apc,        \* Analyze: "idle", "analyzing", "done", "panic"
    order,      \* the job order topologicalSort returned
    aidx,       \* index in order of the job Analyze handles next
    plan,       \* AnalysisResult.Jobs, in the order appended
    epc,        \* position of the caller: dry run or Execute and its callees
    runtime,    \* Executor.runtime
    jidx,       \* Execute: index in the plan of the job result handled next
    sidx,       \* executeJob: index of the step handled next
    nidx,       \* executeCompositeAction: index of the nested step in hand (0: none)
    meta,       \* executeActionWithMetadata: the ActionMetadata in hand
    ekind,      \* the step executor running: "shell", an action kind or "none"
    cid,        \* containerID of the running step executor (0: none created)
    sres,       \* what the step executor returned: err, Success, ExitCode
    fs,         \* the scratch directory and its two side-channel files
    dlog,       \* container-runtime calls made for the current step, in order
    log,        \* jobs and steps started and jobs returned, in order
    execErr     \* the error Execute returned (set: FALSE while none)

vars ==
    <<workflow, build, call, peer, ctx, apc, order, aidx, plan, epc, runtime, jidx, sidx,
      nidx, meta, ekind, cid, sres, fs, dlog, log, execErr>>

analyzerVars == <<ctx, apc, order, aidx, plan>>

executorVars == <<runtime, jidx, sidx, nidx, meta, ekind, cid, sres, fs, dlog, log, execErr>>

-----------------------------------------------------------------------------
(* Workflows and contexts the model starts from                            *)

MaxSteps == 2

A == <<"a">>

B == <<"b">>

C == <<"c">>

\* a name no job declares
G == <<"g">>

JobNames == {A, B, C}

\* all orders in which a range over a map with these keys can yield them
Perms(S) ==
    {p \in [1..Cardinality(S) -> S] : \A i, j \in 1..Cardinality(S) : p[i] = p[j] => i = j}

\* the lists without repetition over S: a needs entry
NoDupSeqs(S) == UNION {Perms(T) : T \in SUBSET S}

SeqsUpTo(S, n) == UNION {[1..k -> S] : k \in 0..n}

ExprFalse == <<"$", "{", "{", " ", "f", "a", "l", "s", "e", " ", "}", "}">>

ExprTrue == <<"t", "r", "u", "e">>

\* evaluation error: unknown function
ExprUnknownFn == <<"f", "o", "o", "(", ")">>

\* evaluation error: wrong arity
ExprArity == <<"c", "o", "n", "t", "a", "i", "n", "s", "(", "'", "a", "'", ")">>

\* lexical error: unterminated string
ExprBadToken == <<"'", "x">>

\* syntax error: unclosed group
ExprBadParse == <<"(", "t", "r", "u", "e">>

\* a bare namespace
ExprJobs == <<"j", "o", "b", "s">>

ExprNot == <<"!", "f", "a", "l", "s", "e">>

CmdEcho == <<"e", "c", "h", "o">>

UsesDocker == <<"d", "o", "c", "k", "e", "r", ":", "/", "/", "x">>

Step(id, if, run, uses) ==
    [ID |-> id, Name |-> <<>>, If |-> if, Env |-> <<>>, Run |-> run, Uses |-> uses]

Job(name, needs, if, steps, outputs) ==
    [Name |-> name, Needs |-> needs, If |-> if, Env |-> <<>>, Steps |-> steps,
     Outputs |-> outputs]

EmptyMap == <<>>

HasUnary(w) == \E n \in DOMAIN w.Jobs : w.Jobs[n].If = ExprNot

\* the workflows of the analysis: every needs list over the candidates of each
\* job (self-dependency, cycle b <-> c, undeclared job g), conditions that are
\* absent, true, false, unevaluable or crashing
AnalysisStepLists ==
    {[i \in 1..k |-> Step(<<"s">> \o NatToStr(i), IF i = k THEN if ELSE <<>>, CmdEcho, <<>>)] :
        k \in 1..MaxSteps, if \in {<<>>, ExprBadToken, ExprFalse}}

AnalysisWorkflows ==
    {[Jobs |-> (A :> Job(A, na, ia, sa, EmptyMap))
            @@ (B :> Job(B, nb, ib, <<Step(<<"t">>, ExprTrue, CmdEcho, <<>>)>>, EmptyMap))
            @@ (C :> Job(C, nc, <<>>, <<>>, EmptyMap))] :
        na \in {<<>>, <<A>>, <<G>>},
        nb \in NoDupSeqs({A, C}),
        nc \in NoDupSeqs({A, B}),
        ia \in {<<>>, ExprFalse, ExprUnknownFn, ExprJobs, ExprBadParse},
        ib \in {<<>>, ExprArity, ExprTrue},
        sa \in AnalysisStepLists}

\* NewContext: no job and no step recorded yet
NewContext ==
    [GitHub  |-> [EventName |-> <<"p", "u", "s", "h">>, Ref |-> <<"m", "a", "i", "n">>,
                  SHA |-> <<>>, Actor |-> <<>>, Repository |-> <<>>, Workspace |-> <<>>,
                  Event |-> EmptyMap],
     Env     |-> EmptyMap,
     Secrets |-> EmptyMap,
     Jobs    |-> EmptyMap,
     Steps   |-> EmptyMap,
     Matrix  |-> EmptyMap]

NoJobContext == [set |-> FALSE, Job |-> <<>>, Outputs |-> EmptyMap, Status |-> ""]

NoStepContext == [set |-> FALSE, Outcome |-> "", Conclusion |-> "", Outputs |-> EmptyMap]

\* NewExecutor
NewRuntime ==
    [TempDir     |-> <<>>,
     Containers  |-> EmptyMap,
     JobContext  |-> NoJobContext,
     StepContext |-> NoStepContext,
     DynamicEnv  |-> EmptyMap,
     StepOutputs |-> EmptyMap]

NoFile == [exists |-> FALSE, content |-> <<>>]

\* the ActionMetadata GetActionMetadata returns: runs.using and runs.steps
Metadata(using, steps) == [set |-> TRUE, Using |-> using, Steps |-> steps]

\* no second Analyzer
NoPeer == [ctx |-> <<>>, apc |-> "none", order |-> <<>>, aidx |-> 0, plan |-> <<>>]

\* no function call under way
NoCall == [fn |-> "", arg |-> <<>>, done |-> FALSE, res |-> NotFound]

\* no ActionMetadata in hand
NoMetadata == [set |-> FALSE, Using |-> "", Steps |-> <<>>]

NoResult == [set |-> FALSE, err |-> "", Success |-> FALSE, ExitCode |-> 0]

NoError == [set |-> FALSE, job |-> <<>>, step |-> <<>>, msg |-> ""]

InitWith(ws) ==
    /\ workflow \in ws
    /\ build \in (IF HasUnary(workflow) THEN UnhandledNode ELSE {"error"})
    /\ call = NoCall
    /\ peer = NoPeer
    /\ ctx = NewContext
    /\ apc = "idle"
    /\ order = <<>>
    /\ aidx = 1
    /\ plan = <<>>
    /\ epc = "idle"
    /\ runtime = NewRuntime
    /\ jidx = 1
    /\ sidx = 1
    /\ nidx = 0
    /\ meta = NoMetadata
    /\ ekind = "none"
    /\ cid = 0
    /\ sres = NoResult
    /\ fs = [dir |-> "none", env |-> NoFile, out |-> NoFile, faulted |-> FALSE]
    /\ dlog = <<>>
    /\ log = <<>>
    /\ execErr = NoError

Init == InitWith(AnalysisWorkflows)

-----------------------------------------------------------------------------
(* Analyze                                                                 *)

\* the start of Analyze: topologicalSort under one iteration order of the map
BeginAnalyze ==
    \E iter \in Perms(DOMAIN workflow.Jobs) :
        /\ order' = topologicalSort(workflow, iter)
        /\ apc' = "analyzing"
        /\ aidx' = 1
        /\ plan' = <<>>
        /\ UNCHANGED ctx

\* a cleanup that removes nothing
cleanupTempDirectory_none(rt, f) == [runtime |-> rt, fs |-> f]

\* cleanupTempDirectory: the runtime and the file system afterwards
cleanupTempDirectory(rt, f) ==
    [runtime |-> [rt EXCEPT !.TempDir = <<>>],
     fs      |-> IF rt.TempDir # <<>>
                 THEN [f EXCEPT !.dir = "removed", !.env = NoFile, !.out = NoFile]
                 ELSE f]

\* the dry-run command calls Analyze
DryRun ==
    /\ epc = "idle"
    /\ apc = "idle"
    /\ epc' = "dryrun"
    /\ BeginAnalyze
    /\ UNCHANGED <<workflow, build, call, peer>>
    /\ UNCHANGED executorVars

\* result := a.analyzeJob(...); the result is appended and the status recorded.
\* A panic unwinds the callers; the deferred cleanup of Execute runs.
recordJobResult(jobName, r) ==
    IF r.panic
    THEN /\ apc' = "panic"
         /\ epc' = "crashed"
         /\ runtime' = cleanupTempDirectory(runtime, fs).runtime
         /\ fs' = cleanupTempDirectory(runtime, fs).fs
         /\ UNCHANGED <<ctx, plan, aidx>>
    ELSE /\ plan' = Append(plan, r.result)
         /\ ctx' = [ctx EXCEPT !.Jobs =
                       MapSet(@, jobName,
                              [Status  |-> IF r.result.WouldRun THEN SUCCESS ELSE SKIPPED,
                               Outputs |-> EmptyMap])]
         /\ aidx' = aidx + 1
         /\ UNCHANGED <<apc, epc, runtime, fs>>

\* one iteration of the loop of Analyze
AnalyzeJobStep ==
    /\ apc = "analyzing"
    /\ aidx <= Len(order)
    /\ recordJobResult(order[aidx],
                       analyzeJob(ctx, order[aidx], JobOf(workflow, order[aidx]), build))
    /\ UNCHANGED <<workflow, build, call, peer, order>>
    /\ UNCHANGED <<jidx, sidx, nidx, meta, ekind, cid, sres, dlog, log, execErr>>

\* Analyze returns the result to its caller
AnalyzeReturn ==
    /\ apc = "analyzing"
    /\ aidx > Len(order)
    /\ apc' = "done"
    /\ epc' = IF epc = "analyze" THEN "jobs" ELSE "reported"
    /\ UNCHANGED <<workflow, build, call, peer, ctx, order, aidx, plan>>
    /\ UNCHANGED executorVars

-----------------------------------------------------------------------------
(* Execute                                                                 *)

TempDirName == <<"/tmp/rehearse-github-">>

\* what a step's container may append to GITHUB_ENV / GITHUB_OUTPUT while it runs
EnvWrites == {<<>>, <<"X", "=", "1", "\n">>}

OutWrites == {<<>>, <<"v", "=", "2", "\n">>}

\* a step named after its id
Named(step) == [step EXCEPT !.Name = <<"n">> \o step.ID]

StepShell(id) == Named(Step(id, <<>>, CmdEcho, <<>>))

StepDocker(id) == Named(Step(id, <<>>, <<>>, UsesDocker))

\* neither run nor uses
StepEmpty(id) == Named(Step(id, <<>>, <<>>, <<>>))

\* a reference to an action of the working directory
UsesLocal == <<".", "/", "c">>

StepLocal(id) == Named(Step(id, <<>>, <<>>, UsesLocal))

\* the nested steps of a composite action: a run command, a uses reference
\* without run command, and a run command under an empty id
NestedRun == StepShell(<<"r">>)

NestedUses == StepDocker(<<"u">>)

NestedAnonymous == [StepShell(<<>>) EXCEPT !.Name = <<"a">>]

\* the action.yml files the action directory may hold
ActionFiles ==
    {Metadata("composite", steps) :
        steps \in {<<>>, <<NestedRun>>, <<NestedUses>>, <<NestedRun, NestedUses>>,
                   <<NestedUses, NestedRun>>, <<NestedRun, NestedAnonymous>>}}
    \cup {Metadata("other", <<>>)}

ExecStepLists ==
    {[i \in 1..Len(ks) |->
         LET id == <<"s">> \o NatToStr(i)
         IN  CASE ks[i] = "shell"  -> StepShell(id)
               [] ks[i] = "docker" -> StepDocker(id)
               [] ks[i] = "empty"  -> StepEmpty(id)] :
        ks \in UNION {[1..n -> {"shell", "docker", "empty"}] : n \in 1..MaxSteps}}

OutputOfS1 ==
    <<"$", "{", "{", " ", "s", "t", "e", "p", "s", ".", "s", "1", ".",
      "o", "u", "t", "p", "u", "t", "s", ".", "v", " ", "}", "}">>

\* the workflows of the runs: job a with every list of step kinds, a condition
\* or a self-dependency, declared outputs; job b depending on a or on g
ExecWorkflows ==
    {[Jobs |-> (A :> Job(A, na, ia, sa, oa))
            @@ (B :> Job(B, nb, <<>>, <<StepShell(<<"t">>)>>, EmptyMap))] :
        na \in {<<>>, <<A>>},
        ia \in {<<>>, ExprFalse, ExprJobs},
        sa \in ExecStepLists,
        oa \in {EmptyMap, (<<"o">> :> OutputOfS1)},
        nb \in {<<>>, <<A>>, <<G>>}}

ExecInit == InitWith(ExecWorkflows)

CurrentJob == workflow.Jobs[plan[jidx].Name]

CurrentStep == CurrentJob.Steps[sidx]

Event(e, job, step, st) == [e |-> e, job |-> job, step |-> step, st |-> st]

\* one call of the container runtime: the operation, the container, whether it
\* returned without error, the exit code a wait reported, and the error a
\* failed wait returned
NoConfig == [Cmd |-> <<>>, Env |-> <<>>]

Call(op, id, ok, code) ==
    [op |-> op, id |-> id, ok |-> ok, code |-> code, config |-> NoConfig, err |-> ""]

\* the CreateContainer call with the ContainerConfig it was given
CreateCall(id, ok, config) ==
    [op |-> "create", id |-> id, ok |-> ok, code |-> 0, config |-> config, err |-> ""]

\* the orders in which the range loops over the env maps of job, run and step
\* can yield their keys
EnvIterations(jobEnv, dynamicEnv, stepEnv) ==
    [job : Perms(DOMAIN jobEnv), dyn : Perms(DOMAIN dynamicEnv),
     step : Perms(DOMAIN stepEnv)]

\* the ContainerConfig of the step: the shell executor runs the substituted
\* command under buildEnvironment and the side-channel variables, the docker
\* action the image's own command under buildActionEnvironment
containerConfig(kind, step, job, rt, iter) ==
    IF kind = "shell"
    THEN [Cmd |-> evaluateExpressions(rt, step.Run).result,
          Env |-> buildEnvironment(step, job.Env, rt.DynamicEnv, iter)
                  \o (IF rt.TempDir # <<>> THEN SideChannelEnv ELSE <<>>)]
    ELSE [Cmd |-> <<>>, Env |-> buildActionEnvironment(step, job.Env, iter)]

Failed(msg) == [set |-> TRUE, err |-> msg, Success |-> FALSE, ExitCode |-> 0]

Exited(code) == [set |-> TRUE, err |-> "", Success |-> (code = 0), ExitCode |-> code]

\* Execute up to the sort inside Analyze: setupTempDirectory, then Analyze
ExecuteStart ==
    /\ epc = "idle"
    /\ apc = "idle"
    /\ \E mkdirOk \in BOOLEAN :
          IF mkdirOk
          THEN /\ runtime' = [runtime EXCEPT !.TempDir = TempDirName]
               /\ fs' = [fs EXCEPT !.dir = "exists", !.env = NoFile, !.out = NoFile]
               /\ epc' = "analyze"
               /\ execErr' = execErr
               /\ BeginAnalyze
          ELSE /\ epc' = "done"
               /\ execErr' = [set |-> TRUE, job |-> <<>>, step |-> <<>>,
                              msg |-> "setting up temp directory"]
               /\ UNCHANGED <<runtime, fs>>
               /\ UNCHANGED analyzerVars
    /\ UNCHANGED <<workflow, build, call, peer, nidx, meta, jidx, sidx, ekind, cid, sres, dlog, log>>

\* a loop that executes every job of the plan
runsJob_all(jr) == TRUE

\* if !jobResult.WouldRun { continue }
runsJob(jr) == jr.WouldRun

\* the loop of Execute passes over a job result that would not run
SkipJob ==
    /\ epc = "jobs"
    /\ jidx <= Len(plan)
    /\ ~runsJob(plan[jidx])
    /\ jidx' = jidx + 1
    /\ UNCHANGED <<workflow, build, call, peer, nidx, meta, epc, runtime, sidx, ekind, cid, sres, fs, dlog, log, execErr>>
    /\ UNCHANGED analyzerVars

\* the plan names a job the workflow does not declare: Execute returns an error
JobNotFound ==
    /\ epc = "jobs"
    /\ jidx <= Len(plan)
    /\ runsJob(plan[jidx])
    /\ plan[jidx].Name \notin DOMAIN workflow.Jobs
    /\ execErr' = [set |-> TRUE, job |-> plan[jidx].Name, step |-> <<>>,
                   msg |-> "not found in workflow"]
    /\ epc' = "done"
    /\ runtime' = cleanupTempDirectory(runtime, fs).runtime
    /\ fs' = cleanupTempDirectory(runtime, fs).fs
    /\ UNCHANGED <<workflow, build, call, peer, nidx, meta, jidx, sidx, ekind, cid, sres, dlog, log>>
    /\ UNCHANGED analyzerVars

\* executeJob up to its step loop
StartJob ==
    /\ epc = "jobs"
    /\ jidx <= Len(plan)
    /\ runsJob(plan[jidx])
    /\ plan[jidx].Name \in DOMAIN workflow.Jobs
    /\ runtime' = [runtime EXCEPT !.JobContext =
                      [set |-> TRUE, Job |-> plan[jidx].Name, Outputs |-> EmptyMap,
                       Status |-> "in_progress"]]
    /\ sidx' = 1
    /\ epc' = "steps"
    /\ log' = Append(log, Event("jobStart", plan[jidx].Name, 0, ""))
    /\ UNCHANGED <<workflow, build, call, peer, nidx, meta, jidx, ekind, cid, sres, fs, dlog, execErr>>
    /\ UNCHANGED analyzerVars

\* the loop of Execute ends: Execute returns nil, its deferred cleanup runs
ExecuteReturn ==
    /\ epc = "jobs"
    /\ jidx > Len(plan)
    /\ epc' = "done"
    /\ runtime' = cleanupTempDirectory(runtime, fs).runtime
    /\ fs' = cleanupTempDirectory(runtime, fs).fs
    /\ UNCHANGED <<workflow, build, call, peer, nidx, meta, jidx, sidx, ekind, cid, sres, dlog, log, execErr>>
    /\ UNCHANGED analyzerVars

\* ActionStepExecutor.Execute: the shape of the action reference
actionKind(ref) ==
    IF HasPrefix(ref, <<".", "/">>) THEN "local"
    ELSE IF HasPrefix(ref, <<"d", "o", "c", "k", "e", "r", ":", "/", "/">>) THEN "docker"
    ELSE IF Contains(ref, <<"/">>) THEN "repository"
    ELSE "unsupported"

\* a dispatch that asks the action executor first
executorFor_actionFirst(step) ==
    IF step.Uses # <<>> THEN "action"
    ELSE IF step.Run # <<>> THEN "shell"
    ELSE "none"

\* the loop of executeStep over e.executors: the first executor whose
\* CanExecute holds, the shell executor before the action executor
executorFor(step) ==
    IF step.Run # <<>> THEN "shell"
    ELSE IF step.Uses # <<>> THEN "action"
    ELSE "none"

\* executeActionWithMetadata: a composite action enters the loop over its
\* nested steps; any other runs.using is not supported
executeActionWithMetadata(md) ==
    IF md.Using = "composite"
    THEN /\ ekind' = "composite"
         /\ meta' = md
         /\ nidx' = 1
         /\ epc' = "nested"
         /\ sres' = NoResult
    ELSE /\ ekind' = "action"
         /\ meta' = md
         /\ nidx' = 0
         /\ epc' = "step_ret"
         /\ sres' = Failed("unsupported action type")

\* executeLocalAction: GetActionMetadata fails, or returns the metadata the
\* action directory holds
executeLocalAction ==
    \E md \in ActionFiles \cup {NoMetadata} :
       IF md.set
       THEN executeActionWithMetadata(md)
       ELSE /\ ekind' = "action"
            /\ epc' = "step_ret"
            /\ sres' = Failed("failed to load action metadata")
            /\ UNCHANGED <<nidx, meta>>

\* the executor ex takes the step: the shell executor and the docker action
\* pull their image first; a local action loads its metadata; an action
\* reference of no known format and a step without executor fail at once
dispatch(ex, step) ==
    IF ex = "shell"
    THEN /\ ekind' = "shell"
         /\ epc' = "pull"
         /\ sres' = NoResult
         /\ UNCHANGED <<nidx, meta>>
    ELSE IF ex = "action" /\ actionKind(step.Uses) = "local"
    THEN executeLocalAction
    ELSE IF ex = "action" /\ actionKind(step.Uses) = "docker"
    THEN /\ ekind' = "docker"
         /\ epc' = "pull"
         /\ sres' = NoResult
         /\ UNCHANGED <<nidx, meta>>
    ELSE IF ex = "action"
    THEN /\ ekind' = "action"
         /\ epc' = "step_ret"
         /\ sres' = Failed("unsupported action format")
         /\ UNCHANGED <<nidx, meta>>
    ELSE /\ ekind' = "none"
         /\ epc' = "step_ret"
         /\ sres' = Failed("no executor found for step")
         /\ UNCHANGED <<nidx, meta>>

\* executeStep up to the first container-runtime call of the executor chosen:
\* the shell executor when the step has a run command, else the action
\* executor when it has a uses reference, else no executor
StartStep ==
    /\ epc = "steps"
    /\ sidx <= Len(CurrentJob.Steps)
    /\ runtime' = [runtime EXCEPT !.StepContext =
                      [set |-> TRUE, Outcome |-> "", Conclusion |-> "", Outputs |-> EmptyMap]]
    /\ log' = Append(log, Event("stepStart", plan[jidx].Name, sidx, ""))
    /\ dlog' = <<>>
    /\ dispatch(executorFor(CurrentStep), CurrentStep)
    /\ UNCHANGED <<workflow, build, call, peer, jidx, sidx, cid, fs, execErr>>
    /\ UNCHANGED analyzerVars

\* the step the shell executor has in hand: a nested step of the composite
\* action, or the step of the job
ExecutingStep == IF nidx > 0 THEN meta.Steps[nidx] ELSE CurrentStep

\* the ShellStepExecutor is executing: for a step of the job, or for a nested
\* step of a composite action
InShell == ekind = "shell" \/ nidx > 0

\* where the executor returns to: the loop of executeCompositeAction, or
\* executeStep
returnPoint == IF nidx > 0 THEN "nested_ret" ELSE "step_ret"

\* one iteration of the loop of executeCompositeAction: a nested step with a
\* run command goes to a new ShellStepExecutor, any other nested step is passed
\* over; after the last one the action reports success
NestedStep ==
    /\ epc = "nested"
    /\ IF nidx > Len(meta.Steps)
       THEN /\ sres' = Exited(0)
            /\ nidx' = 0
            /\ epc' = "step_ret"
       ELSE IF meta.Steps[nidx].Run # <<>>
       THEN /\ epc' = "pull"
            /\ UNCHANGED <<sres, nidx>>
       ELSE /\ nidx' = nidx + 1
            /\ UNCHANGED <<sres, epc>>
    /\ UNCHANGED <<workflow, build, call, peer, meta, runtime, jidx, sidx, ekind, cid, fs, dlog, log, execErr>>
    /\ UNCHANGED analyzerVars

\* the nested ShellStepExecutor.Execute returned: an error ends the composite
\* action, a result is dropped whatever it says
NestedReturned ==
    /\ epc = "nested_ret"
    /\ IF sres.err # ""
       THEN /\ sres' = Failed("composite step failed")
            /\ nidx' = 0
            /\ epc' = "step_ret"
       ELSE /\ sres' = NoResult
            /\ nidx' = nidx + 1
            /\ epc' = "nested"
    /\ UNCHANGED <<workflow, build, call, peer, meta, runtime, jidx, sidx, ekind, cid, fs, dlog, log, execErr>>
    /\ UNCHANGED analyzerVars

\* PullImage, and for a shell step the substitution in the command (a loop
\* that does not end leaves Execute hanging) and the creation of the two
\* side-channel files when the scratch directory does not hold them yet
Pull ==
    /\ epc = "pull"
    /\ \E pullOk \in BOOLEAN, writeOk \in BOOLEAN :
          /\ dlog' = Append(dlog, Call("pull", 0, pullOk, 0))
          /\ IF ~pullOk
             THEN /\ sres' = Failed("failed to pull image")
                  /\ epc' = returnPoint
                  /\ fs' = fs
             ELSE IF InShell /\ ~evaluateExpressions(runtime, ExecutingStep.Run).done
             THEN /\ epc' = "hang"
                  /\ UNCHANGED <<sres, fs>>
             ELSE IF InShell /\ runtime.TempDir # <<>>
                     /\ (~fs.env.exists \/ ~fs.out.exists)
             THEN IF writeOk
                  THEN /\ fs' = [fs EXCEPT
                                   !.env = IF fs.env.exists THEN @
                                           ELSE [exists |-> TRUE, content |-> <<>>],
                                   !.out = IF fs.out.exists THEN @
                                           ELSE [exists |-> TRUE, content |-> <<>>]]
                       /\ epc' = "create"
                       /\ sres' = sres
                  ELSE /\ sres' = Failed("failed to create side-channel file")
                       /\ epc' = returnPoint
                       /\ fs' = fs
             ELSE /\ epc' = "create"
                  /\ UNCHANGED <<sres, fs>>
    /\ UNCHANGED <<workflow, build, call, peer, nidx, meta, runtime, jidx, sidx, ekind, cid, log, execErr>>
    /\ UNCHANGED analyzerVars

\* CreateContainer; the shell executor records the container under the step id
Create ==
    /\ epc = "create"
    /\ \E ok \in BOOLEAN,
          iter \in EnvIterations(CurrentJob.Env, runtime.DynamicEnv, ExecutingStep.Env) :
          /\ dlog' = Append(dlog, CreateCall(IF ok THEN cid + 1 ELSE 0, ok,
                                 containerConfig(IF InShell THEN "shell" ELSE ekind, ExecutingStep, CurrentJob,
                                                 runtime, iter)))
          /\ IF ok
             THEN /\ cid' = cid + 1
                  /\ runtime' = IF InShell
                                THEN [runtime EXCEPT !.Containers =
                                         MapSet(@, ExecutingStep.ID,
                                                [ID |-> cid + 1, Status |-> "created"])]
                                ELSE runtime
                  /\ epc' = "start"
                  /\ sres' = sres
             ELSE /\ sres' = Failed("failed to create container")
                  /\ epc' = returnPoint
                  /\ UNCHANGED <<cid, runtime>>
    /\ UNCHANGED <<workflow, build, call, peer, nidx, meta, jidx, sidx, ekind, fs, log, execErr>>
    /\ UNCHANGED analyzerVars

\* StartContainer; an action step reports success as soon as the start succeeded
Start ==
    /\ epc = "start"
    /\ \E ok \in BOOLEAN :
          /\ dlog' = Append(dlog, Call("start", cid, ok, 0))
          /\ IF ~ok
             THEN /\ sres' = Failed("failed to start container")
                  /\ epc' = "stop"
                  /\ runtime' = runtime
             ELSE IF InShell
             THEN /\ runtime' = [runtime EXCEPT !.Containers[ExecutingStep.ID].Status = "running"]
                  /\ epc' = "wait"
                  /\ sres' = sres
             ELSE /\ sres' = Exited(0)
                  /\ epc' = "stop"
                  /\ runtime' = runtime
    /\ UNCHANGED <<workflow, build, call, peer, nidx, meta, jidx, sidx, ekind, cid, fs, log, execErr>>
    /\ UNCHANGED analyzerVars

\* what ends the select of WaitForContainer: the container exited with status
\* 0 or 1, the wait failed, or the context of Execute was cancelled
WaitOutcomes == {"exit0", "exit1", "error", "cancelled"}

\* the exit code WaitForContainer returns
waitCode(outcome) ==
    CASE outcome = "exit0" -> 0
      [] outcome = "exit1" -> 1
      [] OTHER -> -1

\* the error WaitForContainer returns: of the error channel, or ctx.Err()
waitError(outcome) ==
    CASE outcome = "error" -> "wait for container"
      [] outcome = "cancelled" -> "context canceled"
      [] OTHER -> ""

\* the WaitForContainer call and what it returned
WaitCall(id, outcome) ==
    [Call("wait", id, outcome \in {"exit0", "exit1"}, waitCode(outcome))
        EXCEPT !.err = waitError(outcome)]

\* a wait that reports a cancellation as a normal exit
waited_cancelIgnored(outcome) ==
    CASE outcome = "exit0" -> Exited(0)
      [] outcome = "exit1" -> Exited(1)
      [] outcome = "error" -> Failed("container execution failed")
      [] outcome = "cancelled" -> Exited(0)

\* ShellStepExecutor.Execute after WaitForContainer: an error of the wait,
\* ctx.Err() included, is returned wrapped; else the result carries the exit
\* code
waited(outcome) ==
    CASE outcome = "exit0" -> Exited(0)
      [] outcome = "exit1" -> Exited(1)
      [] outcome = "error" -> Failed("container execution failed")
      [] outcome = "cancelled" -> Failed("container execution failed: context canceled")

\* WaitForContainer: the container ran (and may have written the side-channel
\* files) and exited, or the wait failed, or the cancellation of the context
\* ended the wait
Wait ==
    /\ epc = "wait"
    /\ \E outcome \in WaitOutcomes, envw \in EnvWrites, outw \in OutWrites :
          /\ dlog' = Append(dlog, WaitCall(cid, outcome))
          /\ fs' = [fs EXCEPT !.env.content = IF fs.env.exists THEN @ \o envw ELSE @,
                              !.out.content = IF fs.out.exists THEN @ \o outw ELSE @]
          /\ sres' = waited(outcome)
    /\ epc' = "stop"
    /\ UNCHANGED <<workflow, build, call, peer, nidx, meta, runtime, jidx, sidx, ekind, cid, log, execErr>>
    /\ UNCHANGED analyzerVars

\* a cleanup that gives up when the stop failed
afterStop_giveUp(ok) == IF ok THEN "remove" ELSE "step_ret"

\* where the deferred function goes on after StopContainer: a failure is
\* logged only
afterStop(ok) == "remove"

\* the deferred StopContainer
Stop ==
    /\ epc = "stop"
    /\ \E ok \in BOOLEAN :
          /\ dlog' = Append(dlog, Call("stop", cid, ok, 0))
          /\ epc' = afterStop(ok)
    /\ UNCHANGED <<workflow, build, call, peer, nidx, meta, runtime, jidx, sidx, ekind, cid, sres, fs, log, execErr>>
    /\ UNCHANGED analyzerVars

\* a cleanup that removes the container and leaves its entry in the
\* live-container map
Remove_keepEntry ==
    /\ epc = "remove"
    /\ \E ok \in BOOLEAN : dlog' = Append(dlog, Call("remove", cid, ok, 0))
    /\ epc' = returnPoint
    /\ UNCHANGED <<workflow, build, call, peer, nidx, meta, runtime, jidx, sidx, ekind, cid, sres, fs, log, execErr>>
    /\ UNCHANGED analyzerVars

\* the deferred RemoveContainer, then (shell) delete(runtime.Containers, step.ID)
Remove ==
    /\ epc = "remove"
    /\ \E ok \in BOOLEAN : dlog' = Append(dlog, Call("remove", cid, ok, 0))
    /\ runtime' = IF InShell
                  THEN [runtime EXCEPT !.Containers =
                           [k \in DOMAIN @ \ {ExecutingStep.ID} |-> @[k]]]
                  ELSE runtime
    /\ epc' = returnPoint
    /\ UNCHANGED <<workflow, build, call, peer, nidx, meta, jidx, sidx, ekind, cid, sres, fs, log, execErr>>
    /\ UNCHANGED analyzerVars

\* the outcomes of the os.ReadFile and os.WriteFile calls of one
\* processStepOutputFiles: TRUE where the call returns no error
IOOk == [envRead |-> TRUE, envClear |-> TRUE, outRead |-> TRUE, outClear |-> TRUE]

\* the outcomes that matter on the files f: one call on a file with content
\* fails, and no call fails once one has failed in this run
IOOutcomes(f) ==
    {IOOk}
    \cup (IF ~f.faulted /\ f.env.exists /\ f.env.content # <<>>
          THEN {[IOOk EXCEPT !.envRead = FALSE], [IOOk EXCEPT !.envClear = FALSE]}
          ELSE {})
    \cup (IF ~f.faulted /\ f.out.exists /\ f.out.content # <<>>
          THEN {[IOOk EXCEPT !.outRead = FALSE], [IOOk EXCEPT !.outClear = FALSE]}
          ELSE {})

\* Executor.processStepOutputFiles: the runtime and the file system afterwards,
\* and the error returned ("" for nil)
processStepOutputFiles(rt, f, stepID, io) ==
    IF rt.TempDir = <<>> THEN [runtime |-> rt, fs |-> f, err |-> ""]
    ELSE LET readEnv   == f.env.exists /\ io.envRead /\ Len(f.env.content) > 0
             envFailed == readEnv /\ ~io.envClear
             readOut   == ~envFailed /\ f.out.exists /\ io.outRead
                          /\ Len(f.out.content) > 0
             outFailed == readOut /\ ~io.outClear
             outs      == IF stepID \in DOMAIN rt.StepOutputs
                          THEN rt.StepOutputs[stepID] ELSE EmptyMap
         IN  [runtime |->
                 [rt EXCEPT
                     !.DynamicEnv  = IF readEnv THEN mergeContent(@, f.env.content) ELSE @,
                     !.StepOutputs = IF readOut
                                     THEN MapSet(@, stepID, mergeContent(outs, f.out.content))
                                     ELSE @],
              fs |->
                 [f EXCEPT !.env.content = IF readEnv /\ io.envClear THEN <<>> ELSE @,
                           !.out.content = IF readOut /\ io.outClear THEN <<>> ELSE @],
              err |-> IF envFailed THEN "clear GITHUB_ENV file"
                      ELSE IF outFailed THEN "clear GITHUB_OUTPUT file"
                      ELSE ""]

\* the runtime and the files after processStepOutputFiles
stepProcessed(r) ==
    /\ runtime' = r.runtime
    /\ fs' = r.fs

\* executeStep after processStepOutputFiles returned r: an error is rendered
\* as a warning and executeStep returns nil, so executeJob renders the success
stepSucceeded(r, io) ==
    /\ runtime' = r.runtime
    /\ fs' = [r.fs EXCEPT !.faulted = @ \/ io # IOOk]
    /\ log' = Append(IF r.err # ""
                     THEN Append(log, Event("warning", plan[jidx].Name, sidx, r.err))
                     ELSE log,
                     Event("stepReturn", plan[jidx].Name, sidx, "success"))

\* the step executor returned a successful result: executeStep records the
\* outcome and processes the side-channel files; the step loop goes on
StepSucceeded ==
    /\ epc = "step_ret"
    /\ sres.err = "" /\ sres.Success
    /\ \E io \in IOOutcomes(fs) :
           stepSucceeded(processStepOutputFiles(
               [runtime EXCEPT !.StepContext.Outcome = "success",
                               !.StepContext.Conclusion = "success"],
               fs, CurrentStep.ID, io), io)
    /\ dlog' = <<>>
    /\ sidx' = sidx + 1
    /\ epc' = "steps"
    /\ UNCHANGED <<workflow, build, call, peer, nidx, meta, jidx, ekind, cid, sres, execErr>>
    /\ UNCHANGED analyzerVars

\* a failing step that leaves the job status as it was
markFailed_not(rt) == rt

\* e.runtime.JobContext.Status = "failure"
markFailed(rt) == [rt EXCEPT !.JobContext.Status = "failure"]

\* a deferred function that computes the outputs whatever the status
jobReturned_always(rt, job) ==
    [rt EXCEPT !.JobContext.Outputs = processJobOutputs(rt, job)]

\* the deferred function of executeJob: the job outputs are computed when the
\* status is success
jobReturned(rt, job) ==
    IF rt.JobContext.Status = "success"
    THEN [rt EXCEPT !.JobContext.Outputs = processJobOutputs(rt, job)]
    ELSE rt

\* the runtime and the files after the deferred cleanup of Execute
executeReturned(r) ==
    /\ runtime' = r.runtime
    /\ fs' = r.fs

\* the step executor returned an error or a non-zero exit code: executeStep
\* returns an error, executeJob marks the job failed and returns, Execute
\* returns the wrapped error and its deferred cleanup runs
StepFailed ==
    /\ epc = "step_ret"
    /\ ~(sres.err = "" /\ sres.Success)
    /\ executeReturned(cleanupTempDirectory(
           jobReturned(markFailed([runtime EXCEPT !.StepContext.Outcome = "failure",
                                                  !.StepContext.Conclusion = "failure"]),
                       CurrentJob),
           fs))
    /\ log' = log \o <<Event("stepReturn", plan[jidx].Name, sidx, "failure"),
                       Event("jobReturn", plan[jidx].Name, 0, "failure")>>
    /\ dlog' = <<>>
    /\ execErr' = [set |-> TRUE, job |-> plan[jidx].Name, step |-> CurrentStep.Name,
                   msg |-> IF sres.err # "" THEN sres.err ELSE "step failed with exit code"]
    /\ epc' = "done"
    /\ UNCHANGED <<workflow, build, call, peer, nidx, meta, jidx, sidx, ekind, cid, sres>>
    /\ UNCHANGED analyzerVars

\* the step loop of executeJob ends: status success, the deferred function
\* computes the job outputs, executeJob returns nil
FinishJob ==
    /\ epc = "steps"
    /\ sidx > Len(CurrentJob.Steps)
    /\ runtime' = jobReturned([runtime EXCEPT !.JobContext.Status = "success"], CurrentJob)
    /\ log' = Append(log, Event("jobReturn", plan[jidx].Name, 0, "success"))
    /\ jidx' = jidx + 1
    /\ epc' = "jobs"
    /\ UNCHANGED <<workflow, build, call, peer, nidx, meta, sidx, ekind, cid, sres, fs, dlog, execErr>>
    /\ UNCHANGED analyzerVars

-----------------------------------------------------------------------------
(* Specifications                                                          *)

\* the dry run: Analyze alone
Next == DryRun \/ AnalyzeJobStep \/ AnalyzeReturn

Spec == Init /\ [][Next]_vars

\* a run: Execute, which calls Analyze and then executes the plan
ExecNext ==
    \/ ExecuteStart \/ AnalyzeJobStep \/ AnalyzeReturn
    \/ SkipJob \/ JobNotFound \/ StartJob \/ ExecuteReturn
    \/ StartStep \/ Pull \/ Create \/ Start \/ Wait \/ Stop \/ Remove
    \/ StepSucceeded \/ StepFailed \/ FinishJob

ExecSpec == ExecInit /\ [][ExecNext]_vars

-----------------------------------------------------------------------------
(* processStepOutputFiles on its own: the side-channel files between steps  *)

S1 == <<"s", "1">>

S2 == <<"s", "2">>

\* the contents a container can leave in GITHUB_ENV or GITHUB_OUTPUT
TextPlain == <<"K", "=", "V", "\n">>

TextOther == <<"K", "=", "W", "\n">>

TextL == <<"L", "=", "V", "\n">>

TextSpaces == <<" ", "K", " ", "=", " ", "V", " ", "\n">>

TextNoEquals == <<"K", "\n">>

TextNoKey == <<"=", "V", "\n">>

TextNul == <<"K", "=", NUL, "V", "\n">>

TextTwo == <<"K", "=", "V", "\n", "L", "=", "W", "\n">>

TextTwice == <<"K", "=", "V", "\n", "K", "=", "W", "\n">>

TextEqualsInValue == <<"K", "=", "V", "=", "W", "\n">>

TextBlank == <<" ", "\n">>

TextMixed == <<"K", "\n", "\n", "=", "V", "\n", " ", "L", "=", "W">>

TextEmptyValue == <<"K", "=", "\n">>

FileTexts ==
    {<<>>, TextPlain, TextOther, TextL, TextSpaces, TextNoEquals, TextNoKey, TextNul,
     TextTwo, TextTwice, TextEqualsInValue, TextBlank, TextMixed, TextEmptyValue}

\* what a later step's container writes
LaterWrites == {TextOther, TextL}

Files == {NoFile} \cup {[exists |-> TRUE, content |-> t] : t \in FileTexts}

\* one job of two shell steps s1 and s2
FilesWorkflow ==
    [Jobs |-> (A :> Job(A, <<>>, <<>>, <<StepShell(S1), StepShell(S2)>>, EmptyMap))]

\* a step of job a has run its container: the runtime holds what earlier
\* steps left, the files what the container wrote
FilesInit ==
    /\ workflow = FilesWorkflow
    /\ build = "error"
    /\ call = NoCall
    /\ peer = NoPeer
    /\ ctx = NewContext
    /\ apc = "done"
    /\ order = <<A>>
    /\ aidx = 2
    /\ plan = <<analyzeJob(NewContext, A, FilesWorkflow.Jobs[A], "error").result>>
    /\ epc = "written"
    /\ \E dir \in {<<>>, TempDirName},
          env \in {EmptyMap, (<<"K">> :> <<"0">>), (<<"M">> :> <<"0">>)},
          outs \in {EmptyMap, (S1 :> (<<"K">> :> <<"0">>)), (S2 :> (<<"K">> :> <<"0">>))} :
          runtime = [NewRuntime EXCEPT !.TempDir = dir, !.DynamicEnv = env,
                                       !.StepOutputs = outs]
    /\ jidx = 1
    /\ sidx \in 1..2
    /\ nidx = 0
    /\ meta = NoMetadata
    /\ ekind = "shell"
    /\ cid = 0
    /\ sres = Exited(0)
    /\ \E e \in Files, o \in Files :
          fs = IF runtime.TempDir = <<>>
               THEN [dir |-> "none", env |-> NoFile, out |-> NoFile, faulted |-> FALSE]
               ELSE [dir |-> "exists", env |-> e, out |-> o, faulted |-> FALSE]
    /\ dlog = <<>>
    /\ log = <<>>
    /\ execErr = NoError

\* processStepOutputFiles for the current step, every file operation succeeding
ProcessFiles ==
    /\ epc \in {"written", "processed"}
    /\ stepProcessed(processStepOutputFiles(runtime, fs, CurrentStep.ID, IOOk))
    /\ epc' = "processed"
    /\ UNCHANGED <<workflow, build, call, peer, nidx, meta, jidx, sidx, ekind, cid, sres, dlog, log, execErr>>
    /\ UNCHANGED analyzerVars

\* the container of another step appends to one of the mounted files
ContainerWrites ==
    /\ epc = "processed"
    /\ runtime.TempDir # <<>>
    /\ \E w \in LaterWrites, which \in {"env", "out"} :
          /\ which = "env" => fs.env.exists
          /\ which = "out" => fs.out.exists
          /\ fs' = IF which = "env" THEN [fs EXCEPT !.env.content = @ \o w]
                                    ELSE [fs EXCEPT !.out.content = @ \o w]
    /\ sidx' \in 1..2
    /\ epc' = "written"
    /\ UNCHANGED <<workflow, build, call, peer, nidx, meta, runtime, jidx, ekind, cid, sres, dlog, log, execErr>>
    /\ UNCHANGED analyzerVars

FilesNext == ProcessFiles \/ ContainerWrites

FilesSpec == FilesInit /\ [][FilesNext]_vars

-----------------------------------------------------------------------------
(* One step up to CreateContainer: the configuration its container gets     *)

X == <<"X">>

Y == <<"Y">>

RunnerOS == <<"R", "U", "N", "N", "E", "R", "_", "O", "S">>

ExprEnvX == <<"$", "{", "{", " ", "e", "n", "v", ".", "X", " ", "}", "}">>

ExprEnvY == <<"$", "{", "{", " ", "e", "n", "v", ".", "Y", " ", "}", "}">>

\* env maps of a job and of a step: none, X, and X with a platform variable
JobEnvs == {EmptyMap, (X :> <<"j">>), (X :> <<"j">>) @@ (RunnerOS :> <<"j">>)}

StepEnvs == {EmptyMap, (X :> <<"s">>), (RunnerOS :> <<"s">>)}

\* what earlier steps left in the dynamic environment: nothing, plain values,
\* a value that holds an expression, a value that holds its own expression
DynamicEnvs ==
    {EmptyMap, (X :> <<"d">>), (X :> <<"d">>) @@ (RunnerOS :> <<"d">>),
     (X :> ExprEnvY) @@ (Y :> <<"d">>), (X :> ExprEnvX)}

StepOutputSets == {EmptyMap, (S1 :> (<<"v">> :> <<"2">>))}

\* run commands as the pieces they are made of: plain text (an unclosed
\* wrapper included), expressions of the two shapes (spaced and unspaced,
\* recorded and not) and an expression of another shape
CommandCases ==
    {<<[shape |-> "text", text |-> <<"e", "c", "h", "o">>, id |-> <<>>, name |-> <<>>]>>,
     <<[shape |-> "text", text |-> <<"a", " ">>, id |-> <<>>, name |-> <<>>],
       [shape |-> "env", text |-> <<"$", "{", "{", " ", "e", "n", "v", ".", "X", " ", "}", "}">>, id |-> <<>>, name |-> <<"X">>],
       [shape |-> "text", text |-> <<" ", "b">>, id |-> <<>>, name |-> <<>>]>>,
     <<[shape |-> "env", text |-> <<"$", "{", "{", "e", "n", "v", ".", "Z", "}", "}">>, id |-> <<>>, name |-> <<"Z">>]>>,
     <<[shape |-> "steps", text |-> <<"$", "{", "{", " ", "s", "t", "e", "p", "s", ".", "s", "1", ".", "o", "u", "t", "p", "u", "t", "s", ".", "v", " ", "}", "}">>, id |-> <<"s", "1">>, name |-> <<"v">>]>>,
     <<[shape |-> "steps", text |-> <<"$", "{", "{", " ", "s", "t", "e", "p", "s", ".", "s", "9", ".", "o", "u", "t", "p", "u", "t", "s", ".", "v", " ", "}", "}">>, id |-> <<"s", "9">>, name |-> <<"v">>]>>,
     <<[shape |-> "other", text |-> <<"$", "{", "{", " ", "g", "i", "t", "h", "u", "b", ".", "s", "h", "a", " ", "}", "}">>, id |-> <<>>, name |-> <<>>]>>,
     <<[shape |-> "text", text |-> <<"a", " ", "$", "{", "{", " ", "e", "n", "v", ".", "X">>, id |-> <<>>, name |-> <<>>]>>,
     <<[shape |-> "env", text |-> <<"$", "{", "{", " ", "e", "n", "v", ".", "X", " ", "}", "}">>, id |-> <<>>, name |-> <<"X">>],
       [shape |-> "steps", text |-> <<"$", "{", "{", " ", "s", "t", "e", "p", "s", ".", "s", "1", ".", "o", "u", "t", "p", "u", "t", "s", ".", "v", " ", "}", "}">>, id |-> <<"s", "1">>, name |-> <<"v">>]>>}

\* the text of a command: its pieces one after the other
RECURSIVE CommandText(_)
CommandText(pieces) ==
    IF pieces = <<>> THEN <<>> ELSE Head(pieces).text \o CommandText(Tail(pieces))

Commands == {CommandText(c) : c \in CommandCases}

\* shell steps, docker action steps, a step with a run command and an action
\* reference, a step with neither, a step whose reference has no known format
ConfigSteps ==
    {[StepShell(S2) EXCEPT !.Run = c, !.Env = e] : c \in Commands, e \in StepEnvs}
    \cup {[StepDocker(S2) EXCEPT !.Env = e] : e \in StepEnvs}
    \cup {[StepShell(S2) EXCEPT !.Uses = UsesDocker], StepEmpty(S2),
          [StepEmpty(S2) EXCEPT !.Uses = <<"x">>]}

ConfigWorkflows ==
    {[Jobs |-> (A :> [Job(A, <<>>, <<>>, <<st>>, EmptyMap) EXCEPT !.Env = je])] :
        st \in ConfigSteps, je \in JobEnvs}

\* job a has started and its step s2 is next; earlier steps of the run left
\* the dynamic environment, the step outputs and perhaps the two files
ConfigInit ==
    /\ workflow \in ConfigWorkflows
    /\ build = "error"
    /\ call = NoCall
    /\ peer = NoPeer
    /\ ctx = NewContext
    /\ apc = "done"
    /\ order = <<A>>
    /\ aidx = 2
    /\ plan = <<analyzeJob(NewContext, A, workflow.Jobs[A], "error").result>>
    /\ epc = "steps"
    /\ \E dyn \in DynamicEnvs, outs \in StepOutputSets :
          runtime = [NewRuntime EXCEPT
                        !.TempDir = TempDirName,
                        !.JobContext = [set |-> TRUE, Job |-> A, Outputs |-> EmptyMap,
                                        Status |-> "in_progress"],
                        !.DynamicEnv = dyn,
                        !.StepOutputs = outs]
    /\ jidx = 1
    /\ sidx = 1
    /\ nidx = 0
    /\ meta = NoMetadata
    /\ ekind = "none"
    /\ cid = 0
    /\ sres = NoResult
    /\ \E f \in {NoFile, [exists |-> TRUE, content |-> <<>>]} :
          fs = [dir |-> "exists", env |-> f, out |-> f, faulted |-> FALSE]
    /\ dlog = <<>>
    /\ log = <<Event("jobStart", A, 0, "")>>
    /\ execErr = NoError

ConfigNext == StartStep \/ Pull \/ Create

ConfigSpec == ConfigInit /\ [][ConfigNext]_vars

-----------------------------------------------------------------------------
(* Composite actions: a job whose step uses an action of the working        *)
(* directory                                                                *)

CompositeWorkflows ==
    {[Jobs |-> (A :> Job(A, <<>>, <<>>, <<StepLocal(<<"s">>)>>, EmptyMap))]}

\* job a has started and its only step, uses: ./c, is next
CompositeInit ==
    /\ workflow \in CompositeWorkflows
    /\ build = "error"
    /\ call = NoCall
    /\ peer = NoPeer
    /\ ctx = NewContext
    /\ apc = "done"
    /\ order = <<A>>
    /\ aidx = 2
    /\ plan = <<analyzeJob(NewContext, A, workflow.Jobs[A], "error").result>>
    /\ epc = "steps"
    /\ runtime = [NewRuntime EXCEPT
                     !.TempDir = TempDirName,
                     !.JobContext = [set |-> TRUE, Job |-> A, Outputs |-> EmptyMap,
                                     Status |-> "in_progress"]]
    /\ jidx = 1
    /\ sidx = 1
    /\ nidx = 0
    /\ meta = NoMetadata
    /\ ekind = "none"
    /\ cid = 0
    /\ sres = NoResult
    /\ fs = [dir |-> "exists", env |-> NoFile, out |-> NoFile, faulted |-> FALSE]
    /\ dlog = <<>>
    /\ log = <<Event("jobStart", A, 0, "")>>
    /\ execErr = NoError

CompositeNext ==
    \/ StartStep \/ NestedStep \/ NestedReturned
    \/ Pull \/ Create \/ Start \/ Wait \/ Stop \/ Remove
    \/ StepSucceeded \/ StepFailed \/ FinishJob

CompositeSpec == CompositeInit /\ [][CompositeNext]_vars

-----------------------------------------------------------------------------
(* Step conditions during a run: a job whose first step carries an if       *)

\* job a has started with the plan Analyze returned for it; its first step is
\* next
StartedWith(ws) ==
    /\ workflow \in ws
    /\ build = "error"
    /\ call = NoCall
    /\ peer = NoPeer
    /\ ctx = NewContext
    /\ apc = "done"
    /\ order = <<A>>
    /\ aidx = 2
    /\ plan = <<analyzeJob(NewContext, A, workflow.Jobs[A], "error").result>>
    /\ epc = "steps"
    /\ runtime = [NewRuntime EXCEPT
                     !.TempDir = TempDirName,
                     !.JobContext = [set |-> TRUE, Job |-> A, Outputs |-> EmptyMap,
                                     Status |-> "in_progress"]]
    /\ jidx = 1
    /\ sidx = 1
    /\ nidx = 0
    /\ meta = NoMetadata
    /\ ekind = "none"
    /\ cid = 0
    /\ sres = NoResult
    /\ fs = [dir |-> "exists", env |-> NoFile, out |-> NoFile, faulted |-> FALSE]
    /\ dlog = <<>>
    /\ log = <<Event("jobStart", A, 0, "")>>
    /\ execErr = NoError

ConditionWorkflows ==
    {[Jobs |-> (A :> Job(A, <<>>, ia,
                         <<[st EXCEPT !.If = is], StepShell(<<"s", "2">>)>>, EmptyMap))] :
        ia \in {<<>>, ExprTrue},
        is \in {<<>>, ExprTrue, ExprFalse},
        st \in {StepShell(<<"s", "1">>), StepDocker(<<"s", "1">>)}}

ConditionInit == StartedWith(ConditionWorkflows)

ConditionNext ==
    \/ StartStep \/ Pull \/ Create \/ Start \/ Wait \/ Stop \/ Remove
    \/ StepSucceeded \/ StepFailed \/ FinishJob

ConditionSpec == ConditionInit /\ [][ConditionNext]_vars

-----------------------------------------------------------------------------
(* Context.Lookup on its own: a context and a path, then the call           *)

WJobs == <<"j", "o", "b", "s">>

WSteps == <<"s", "t", "e", "p", "s">>

WStatus == <<"s", "t", "a", "t", "u", "s">>

WOutcome == <<"o", "u", "t", "c", "o", "m", "e">>

WOutputs == <<"o", "u", "t", "p", "u", "t", "s">>

\* the paths looked up: empty, bare namespaces, too few and too many segments,
\* unknown namespaces, recorded and unrecorded jobs, steps and outputs
LookupPaths ==
    {<<>>,
     <<".">>,
     <<"j", "o", "b", "s">>,
     <<"s", "t", "e", "p", "s">>,
     <<"g", "i", "t", "h", "u", "b">>,
     <<"e", "n", "v">>,
     <<"s", "e", "c", "r", "e", "t", "s">>,
     <<"m", "a", "t", "r", "i", "x">>,
     <<"o", "t", "h", "e", "r">>,
     <<"o", "t", "h", "e", "r", ".", "x">>,
     <<"j", "o", "b", "s", ".", "a">>,
     <<"j", "o", "b", "s", ".", "b">>,
     <<"j", "o", "b", "s", ".", "a", ".", "s", "t", "a", "t", "u", "s">>,
     <<"j", "o", "b", "s", ".", "b", ".", "s", "t", "a", "t", "u", "s">>,
     <<"j", "o", "b", "s", ".", "a", ".", "o", "t", "h", "e", "r">>,
     <<"j", "o", "b", "s", ".", "a", ".", "o", "u", "t", "p", "u", "t", "s">>,
     <<"j", "o", "b", "s", ".", "a", ".", "o", "u", "t", "p", "u", "t", "s", ".", "o">>,
     <<"j", "o", "b", "s", ".", "a", ".", "o", "u", "t", "p", "u", "t", "s", ".", "p">>,
     <<"j", "o", "b", "s", ".", "a", ".", "o", "u", "t", "p", "u", "t", "s", ".", "o", ".", "x">>,
     <<"j", "o", "b", "s", ".", "a", ".", "s", "t", "a", "t", "u", "s", ".", "x">>,
     <<"s", "t", "e", "p", "s", ".", "s">>,
     <<"s", "t", "e", "p", "s", ".", "t">>,
     <<"s", "t", "e", "p", "s", ".", "s", ".", "o", "u", "t", "c", "o", "m", "e">>,
     <<"s", "t", "e", "p", "s", ".", "t", ".", "o", "u", "t", "c", "o", "m", "e">>,
     <<"s", "t", "e", "p", "s", ".", "s", ".", "o", "t", "h", "e", "r">>,
     <<"s", "t", "e", "p", "s", ".", "s", ".", "o", "u", "t", "p", "u", "t", "s">>,
     <<"s", "t", "e", "p", "s", ".", "s", ".", "o", "u", "t", "p", "u", "t", "s", ".", "o">>,
     <<"s", "t", "e", "p", "s", ".", "s", ".", "o", "u", "t", "p", "u", "t", "s", ".", "p">>,
     <<"s", "t", "e", "p", "s", ".", "s", ".", "o", "u", "t", "p", "u", "t", "s", ".", "o", ".", "x">>,
     <<"s", "t", "e", "p", "s", ".", "s", ".", "o", "u", "t", "c", "o", "m", "e", ".", "x">>,
     <<"e", "n", "v", ".", "X">>,
     <<"e", "n", "v", ".", "Y">>,
     <<"e", "n", "v", ".", "X", ".", "y">>,
     <<"s", "e", "c", "r", "e", "t", "s", ".", "X">>,
     <<"m", "a", "t", "r", "i", "x", ".", "X">>,
     <<"g", "i", "t", "h", "u", "b", ".", "r", "e", "f">>,
     <<"g", "i", "t", "h", "u", "b", ".", "o", "t", "h", "e", "r">>}

\* contexts: a fresh one; one with job a and step s recorded, each with output
\* o; one with job a recorded as failed without outputs
LookupContexts ==
    {NewContext,
     [NewContext EXCEPT
         !.Env = (X :> <<"1">>),
         !.Jobs = (A :> [Status |-> SUCCESS, Outputs |-> (<<"o">> :> <<"1">>)]),
         !.Steps = (<<"s">> :> [Outcome |-> SUCCESS, Outputs |-> (<<"o">> :> <<"2">>)])],
     [NewContext EXCEPT
         !.Jobs = (A :> [Status |-> <<"f", "a", "i", "l", "u", "r", "e">>,
                         Outputs |-> EmptyMap]),
         !.Steps = (<<"s">> :> [Outcome |-> <<"f", "a", "i", "l", "u", "r", "e">>,
                                Outputs |-> EmptyMap])]}

\* neither Analyze nor Execute has been called on the analyzer and the
\* executor
Idle ==
    /\ apc = "idle"
    /\ order = <<>>
    /\ aidx = 1
    /\ plan = <<>>
    /\ epc = "idle"
    /\ runtime = NewRuntime
    /\ jidx = 1
    /\ sidx = 1
    /\ nidx = 0
    /\ meta = NoMetadata
    /\ ekind = "none"
    /\ cid = 0
    /\ sres = NoResult
    /\ fs = [dir |-> "none", env |-> NoFile, out |-> NoFile, faulted |-> FALSE]
    /\ dlog = <<>>
    /\ log = <<>>
    /\ execErr = NoError

\* no second analyzer
Quiescent ==
    /\ peer = NoPeer
    /\ Idle

LookupInit ==
    /\ workflow = [Jobs |-> EmptyMap]
    /\ build = "error"
    /\ Quiescent
    /\ ctx \in LookupContexts
    /\ call \in {[fn |-> "Lookup", arg |-> path, done |-> FALSE, res |-> NotFound] :
                    path \in LookupPaths}

\* c.Lookup(path)
CallLookup ==
    /\ call.fn = "Lookup"
    /\ ~call.done
    /\ call' = [call EXCEPT !.done = TRUE, !.res = Lookup(ctx, call.arg)]
    /\ UNCHANGED <<workflow, build, peer, epc>>
    /\ UNCHANGED analyzerVars
    /\ UNCHANGED executorVars

LookupNext == CallLookup

LookupSpec == LookupInit /\ [][LookupNext]_vars

-----------------------------------------------------------------------------
(* Expressions on their own: Evaluate and the parser                        *)

\* operands and whether the truthiness table counts them as true
TruthCases ==
    {[text |-> <<"f", "a", "l", "s", "e">>, truthy |-> FALSE],
     [text |-> <<"t", "r", "u", "e">>, truthy |-> TRUE],
     [text |-> <<"'", "'">>, truthy |-> FALSE],
     [text |-> <<"'", "a", "'">>, truthy |-> TRUE],
     [text |-> <<"'", "0", "'">>, truthy |-> TRUE],
     [text |-> <<"'", "f", "a", "l", "s", "e", "'">>, truthy |-> TRUE],
     [text |-> <<"n", "u", "l", "l">>, truthy |-> FALSE],
     [text |-> <<"0">>, truthy |-> FALSE],
     [text |-> <<"0", ".", "0">>, truthy |-> FALSE],
     [text |-> <<"1">>, truthy |-> TRUE],
     [text |-> <<"-", "1">>, truthy |-> TRUE],
     [text |-> <<"e", "n", "v", ".", "z">>, truthy |-> FALSE],
     [text |-> <<"g", "i", "t", "h", "u", "b", ".", "r", "e", "f">>, truthy |-> TRUE],
     [text |-> <<"g", "i", "t", "h", "u", "b", ".", "e", "v", "e", "n", "t">>, truthy |-> TRUE]}

OrFalse(text) == text \o <<" ", "|", "|", " ", "f", "a", "l", "s", "e">>

AndTrue(text) == text \o <<" ", "&", "&", " ", "t", "r", "u", "e">>

Not(text) == <<"!">> \o text

\* each operand under ||, && and !
TruthExpressions ==
    UNION {{OrFalse(c.text), AndTrue(c.text), Not(c.text)} : c \in TruthCases}

\* expression texts and whether they are one complete expression
ParseCases ==
    {[text |-> <<"t", "r", "u", "e">>, wellFormed |-> TRUE],
     [text |-> <<"(", "t", "r", "u", "e", ")">>, wellFormed |-> TRUE],
     [text |-> <<"c", "o", "n", "t", "a", "i", "n", "s", "(", "'", "a", "'", ",", " ", "'", "b", "'", ")">>, wellFormed |-> TRUE],
     [text |-> <<"a", "l", "w", "a", "y", "s", "(", ")">>, wellFormed |-> TRUE],
     [text |-> <<"t", "r", "u", "e", " ", "&", "&", " ", "f", "a", "l", "s", "e">>, wellFormed |-> TRUE],
     [text |-> <<"!", "t", "r", "u", "e">>, wellFormed |-> TRUE],
     [text |-> <<"a", " ", "=", "=", " ", "'", "b", "'">>, wellFormed |-> TRUE],
     [text |-> <<"t", "r", "u", "e", " ", "f", "a", "l", "s", "e">>, wellFormed |-> FALSE],
     [text |-> <<"t", "r", "u", "e", " ", ")">>, wellFormed |-> FALSE],
     [text |-> <<"a", "l", "w", "a", "y", "s", "(", ")", " ", "a", "l", "w", "a", "y", "s", "(", ")">>, wellFormed |-> FALSE],
     [text |-> <<"c", "o", "n", "t", "a", "i", "n", "s", "(", "'", "a", "'", " ", "'", "b", "'", ")">>, wellFormed |-> FALSE],
     [text |-> <<"c", "o", "n", "t", "a", "i", "n", "s", "(", "'", "a", "'">>, wellFormed |-> FALSE],
     [text |-> <<"c", "o", "n", "t", "a", "i", "n", "s", "(">>, wellFormed |-> FALSE],
     [text |-> <<"(", "t", "r", "u", "e">>, wellFormed |-> FALSE],
     [text |-> <<")">>, wellFormed |-> FALSE],
     [text |-> <<"t", "r", "u", "e", " ", "&", "&">>, wellFormed |-> FALSE],
     [text |-> <<"=", "=", " ", "1">>, wellFormed |-> FALSE],
     [text |-> <<>>, wellFormed |-> FALSE],
     [text |-> <<"c", "o", "n", "t", "a", "i", "n", "s", "(", "'", "a", "'", ",", ",", " ", "'", "b", "'", ")">>, wellFormed |-> FALSE]}

\* condition texts and whether the condition is satisfied: only an expression
\* whose value is the boolean true is
ConditionCases ==
    {[text |-> <<"t", "r", "u", "e">>, satisfied |-> TRUE],
     [text |-> <<"f", "a", "l", "s", "e">>, satisfied |-> FALSE],
     [text |-> <<"'", "a", "'">>, satisfied |-> FALSE],
     [text |-> <<"'", "t", "r", "u", "e", "'">>, satisfied |-> FALSE],
     [text |-> <<"1">>, satisfied |-> FALSE],
     [text |-> <<"n", "u", "l", "l">>, satisfied |-> FALSE],
     [text |-> <<"g", "i", "t", "h", "u", "b", ".", "r", "e", "f">>, satisfied |-> FALSE],
     [text |-> <<"g", "i", "t", "h", "u", "b", ".", "e", "v", "e", "n", "t">>, satisfied |-> FALSE],
     [text |-> <<"e", "n", "v", ".", "z">>, satisfied |-> FALSE],
     [text |-> <<"1", " ", "=", "=", " ", "1">>, satisfied |-> TRUE],
     [text |-> <<"'", "a", "'", " ", "=", "=", " ", "'", "b", "'">>, satisfied |-> FALSE],
     [text |-> <<"g", "i", "t", "h", "u", "b", ".", "r", "e", "f", " ", "=", "=", " ", "'", "m", "a", "i", "n", "'">>, satisfied |-> TRUE],
     [text |-> <<"t", "r", "u", "e", " ", "&", "&", " ", "'", "a", "'">>, satisfied |-> TRUE],
     [text |-> <<"'", "a", "'", " ", "|", "|", " ", "f", "a", "l", "s", "e">>, satisfied |-> TRUE],
     [text |-> <<"a", "l", "w", "a", "y", "s", "(", ")">>, satisfied |-> TRUE]}

ExpressionInit ==
    /\ workflow = [Jobs |-> EmptyMap]
    /\ build \in UnhandledNode
    /\ Quiescent
    /\ ctx = NewContext
    /\ call \in {[fn |-> "Evaluate", arg |-> e, done |-> FALSE, res |-> ENil] :
                    e \in TruthExpressions}
           \cup {[fn |-> "parse", arg |-> c.text, done |-> FALSE, res |-> PErr("", 0)] :
                    c \in ParseCases}
           \cup {[fn |-> "evaluateCondition", arg |-> c.text, done |-> FALSE,
                  res |-> [panic |-> FALSE, cond |-> NoCondition]] :
                    c \in ConditionCases}

\* e.Evaluate(expr)
CallEvaluate ==
    /\ call.fn = "Evaluate"
    /\ ~call.done
    /\ call' = [call EXCEPT !.done = TRUE, !.res = Evaluate(ctx, call.arg, build)]
    /\ UNCHANGED <<workflow, build, peer, epc>>
    /\ UNCHANGED analyzerVars
    /\ UNCHANGED executorVars

\* tokens, _ := tokenize(expr); p := &parser{tokens: tokens}; p.parse()
CallParse ==
    /\ call.fn = "parse"
    /\ ~call.done
    /\ call' = [call EXCEPT !.done = TRUE, !.res = parse(tokenize(call.arg).tokens)]
    /\ UNCHANGED <<workflow, build, peer, epc>>
    /\ UNCHANGED analyzerVars
    /\ UNCHANGED executorVars

\* a.evaluateCondition(expr)
CallCondition ==
    /\ call.fn = "evaluateCondition"
    /\ ~call.done
    /\ call' = [call EXCEPT !.done = TRUE, !.res = evaluateCondition(ctx, call.arg, build)]
    /\ UNCHANGED <<workflow, build, peer, epc>>
    /\ UNCHANGED analyzerVars
    /\ UNCHANGED executorVars

ExpressionNext == CallEvaluate \/ CallParse \/ CallCondition

ExpressionSpec == ExpressionInit /\ [][ExpressionNext]_vars

-----------------------------------------------------------------------------
(* Two analyses of one workflow, each with its own Context, in one process  *)

ExprJobsA == <<"j", "o", "b", "s", ".", "a">>

ConcurrentWorkflows ==
    {[Jobs |-> (A :> Job(A, <<>>, ia, <<>>, EmptyMap))
            @@ (B :> Job(B, nb, ib, <<>>, EmptyMap))] :
        nb \in {<<>>, <<A>>},
        ia \in {<<>>, ExprFalse, ExprJobs},
        ib \in {<<>>, ExprTrue, ExprJobsA}}

\* NewAnalyzer(w, ctx) on a fresh context
NewAnalyzer == [ctx |-> NewContext, apc |-> "idle", order |-> <<>>, aidx |-> 1, plan |-> <<>>]

ConcurrentInit ==
    /\ workflow \in ConcurrentWorkflows
    /\ build = "error"
    /\ call = NoCall
    /\ ctx = NewContext
    /\ peer = NewAnalyzer
    /\ Idle

\* a panic in one goroutine ends the process
ProcessAlive == apc # "panic" /\ peer.apc # "panic"

\* the second analyzer after analyzeJob returned r for the job: the result is
\* appended and the status recorded in its own context, or the panic unwinds
analyzed(p, jobName, r) ==
    IF r.panic
    THEN [p EXCEPT !.apc = "panic"]
    ELSE [p EXCEPT !.plan = Append(@, r.result),
                   !.ctx.Jobs = MapSet(@, jobName,
                                   [Status  |-> IF r.result.WouldRun THEN SUCCESS ELSE SKIPPED,
                                    Outputs |-> EmptyMap]),
                   !.aidx = @ + 1]

\* the second analyzer starts Analyze: topologicalSort under its own iteration
\* order of the job map
PeerBegin ==
    /\ ProcessAlive
    /\ peer.apc = "idle"
    /\ \E iter \in Perms(DOMAIN workflow.Jobs) :
          peer' = [peer EXCEPT !.apc = "analyzing", !.order = topologicalSort(workflow, iter)]
    /\ UNCHANGED <<workflow, build, call, epc>>
    /\ UNCHANGED analyzerVars
    /\ UNCHANGED executorVars

\* one iteration of the loop of Analyze in the second analyzer
PeerJobStep ==
    /\ ProcessAlive
    /\ peer.apc = "analyzing"
    /\ peer.aidx <= Len(peer.order)
    /\ peer' = analyzed(peer, peer.order[peer.aidx],
                        analyzeJob(peer.ctx, peer.order[peer.aidx],
                                   JobOf(workflow, peer.order[peer.aidx]), build))
    /\ UNCHANGED <<workflow, build, call, epc>>
    /\ UNCHANGED analyzerVars
    /\ UNCHANGED executorVars

\* Analyze returns in the second analyzer
PeerReturn ==
    /\ ProcessAlive
    /\ peer.apc = "analyzing"
    /\ peer.aidx > Len(peer.order)
    /\ peer' = [peer EXCEPT !.apc = "done"]
    /\ UNCHANGED <<workflow, build, call, epc>>
    /\ UNCHANGED analyzerVars
    /\ UNCHANGED executorVars

\* the steps of the first analyzer while the process is alive
FirstBegin == ProcessAlive /\ DryRun

FirstJobStep == ProcessAlive /\ AnalyzeJobStep

FirstReturn == ProcessAlive /\ AnalyzeReturn

ConcurrentNext ==
    \/ FirstBegin \/ FirstJobStep \/ FirstReturn
    \/ PeerBegin \/ PeerJobStep \/ PeerReturn

ConcurrentSpec == ConcurrentInit /\ [][ConcurrentNext]_vars

-----------------------------------------------------------------------------
(* Analyze called twice on one analyzer: a dry-run analysis, then the       *)
(* analysis Execute starts with                                             *)

ExprStatusA == <<"j", "o", "b", "s", ".", "a", ".", "s", "t", "a", "t", "u", "s", " ", "=", "=", " ", "'", "s", "u", "c", "c", "e", "s", "s", "'">>

ExprStatusB == <<"j", "o", "b", "s", ".", "b", ".", "s", "t", "a", "t", "u", "s", " ", "=", "=", " ", "'", "s", "u", "c", "c", "e", "s", "s", "'">>

ExprNotStatusA == <<"j", "o", "b", "s", ".", "a", ".", "s", "t", "a", "t", "u", "s", " ", "!", "=", " ", "'", "s", "u", "c", "c", "e", "s", "s", "'">>

RepeatWorkflows ==
    {[Jobs |-> (A :> Job(A, <<>>, ia, <<>>, EmptyMap))
            @@ (B :> Job(B, nb, ib, <<>>, EmptyMap))] :
        nb \in {<<>>, <<A>>},
        ia \in {<<>>, ExprFalse, ExprStatusB, ExprNotStatusA},
        ib \in {<<>>, ExprTrue, ExprStatusA}}

RepeatInit == InitWith(RepeatWorkflows)

\* the first Analyze has returned and the same analyzer is asked again, as by
\* Execute: what the first call returned is kept, the Context is the one the
\* first call left
AnalyzeAgain ==
    /\ epc = "reported"
    /\ apc = "done"
    /\ call = NoCall
    /\ call' = [fn |-> "Analyze", arg |-> <<>>, done |-> TRUE, res |-> plan]
    /\ epc' = "again"
    /\ BeginAnalyze
    /\ UNCHANGED <<workflow, build, peer>>
    /\ UNCHANGED executorVars

RepeatNext == DryRun \/ AnalyzeJobStep \/ AnalyzeReturn \/ AnalyzeAgain

RepeatSpec == RepeatInit /\ [][RepeatNext]_vars

-----------------------------------------------------------------------------
(* The end of a job: its output expressions                                *)

\* output expressions with what they are: of the shape steps.<id>.outputs.<name>
\* or env.<name> (wrapped or not), or of another shape; prefixed marks those of
\* another shape whose text inside the wrapper begins with "steps." or "env."
OutputCases ==
    {[text |-> <<"$", "{", "{", " ", "s", "t", "e", "p", "s", ".", "s", "1", ".", "o", "u", "t", "p", "u", "t", "s", ".", "v", " ", "}", "}">>,
      shape |-> "steps", id |-> <<"s", "1">>, name |-> <<"v">>, prefixed |-> FALSE],
     [text |-> <<"s", "t", "e", "p", "s", ".", "s", "1", ".", "o", "u", "t", "p", "u", "t", "s", ".", "v">>,
      shape |-> "steps", id |-> <<"s", "1">>, name |-> <<"v">>, prefixed |-> FALSE],
     [text |-> <<"$", "{", "{", "s", "t", "e", "p", "s", ".", "s", "1", ".", "o", "u", "t", "p", "u", "t", "s", ".", "v", "}", "}">>,
      shape |-> "steps", id |-> <<"s", "1">>, name |-> <<"v">>, prefixed |-> FALSE],
     [text |-> <<"$", "{", "{", " ", "s", "t", "e", "p", "s", ".", "s", "9", ".", "o", "u", "t", "p", "u", "t", "s", ".", "v", " ", "}", "}">>,
      shape |-> "steps", id |-> <<"s", "9">>, name |-> <<"v">>, prefixed |-> FALSE],
     [text |-> <<"$", "{", "{", " ", "s", "t", "e", "p", "s", ".", "s", "1", ".", "o", "u", "t", "p", "u", "t", "s", ".", "w", " ", "}", "}">>,
      shape |-> "steps", id |-> <<"s", "1">>, name |-> <<"w">>, prefixed |-> FALSE],
     [text |-> <<"$", "{", "{", " ", "e", "n", "v", ".", "X", " ", "}", "}">>,
      shape |-> "env", id |-> <<>>, name |-> <<"X">>, prefixed |-> FALSE],
     [text |-> <<"$", "{", "{", " ", "\t", " ", "e", "n", "v", ".", "X", " ", "\n", " ", "}", "}">>,
      shape |-> "env", id |-> <<>>, name |-> <<"X">>, prefixed |-> FALSE],
     [text |-> <<"e", "n", "v", ".", "X">>,
      shape |-> "env", id |-> <<>>, name |-> <<"X">>, prefixed |-> FALSE],
     [text |-> <<"$", "{", "{", " ", "e", "n", "v", ".", "Z", " ", "}", "}">>,
      shape |-> "env", id |-> <<>>, name |-> <<"Z">>, prefixed |-> FALSE],
     [text |-> <<"l", "i", "t", "e", "r", "a", "l">>,
      shape |-> "other", id |-> <<>>, name |-> <<>>, prefixed |-> FALSE],
     [text |-> <<" ", "l", "i", "t", "e", "r", "a", "l", " ">>,
      shape |-> "other", id |-> <<>>, name |-> <<>>, prefixed |-> FALSE],
     [text |-> <<>>,
      shape |-> "other", id |-> <<>>, name |-> <<>>, prefixed |-> FALSE],
     [text |-> <<"$", "{", "{", " ", "g", "i", "t", "h", "u", "b", ".", "s", "h", "a", " ", "}", "}">>,
      shape |-> "other", id |-> <<>>, name |-> <<>>, prefixed |-> FALSE],
     [text |-> <<"a", " ", "$", "{", "{", " ", "e", "n", "v", ".", "X", " ", "}", "}">>,
      shape |-> "other", id |-> <<>>, name |-> <<>>, prefixed |-> FALSE],
     [text |-> <<"$", "{", "{", " ", "s", "t", "e", "p", "s", ".", "s", "1", ".", "o", "u", "t", "c", "o", "m", "e", " ", "}", "}">>,
      shape |-> "other", id |-> <<>>, name |-> <<>>, prefixed |-> TRUE],
     [text |-> <<"$", "{", "{", " ", "e", "n", "v", ".", "X", " ", "}", "}", "$", "{", "{", " ", "e", "n", "v", ".", "Y", " ", "}", "}">>,
      shape |-> "other", id |-> <<>>, name |-> <<>>, prefixed |-> TRUE]}

OutputWorkflows ==
    {[Jobs |-> (A :> Job(A, <<>>, <<>>, <<StepShell(S1)>>, (<<"o">> :> c.text)))] :
        c \in OutputCases}

\* the one step of job a has returned; the run holds what the steps left
OutputsInit ==
    /\ workflow \in OutputWorkflows
    /\ build = "error"
    /\ call = NoCall
    /\ peer = NoPeer
    /\ ctx = NewContext
    /\ apc = "done"
    /\ order = <<A>>
    /\ aidx = 2
    /\ plan = <<analyzeJob(NewContext, A, workflow.Jobs[A], "error").result>>
    /\ epc = "steps"
    /\ \E dyn \in DynamicEnvs, outs \in StepOutputSets :
          runtime = [NewRuntime EXCEPT
                        !.TempDir = TempDirName,
                        !.JobContext = [set |-> TRUE, Job |-> A, Outputs |-> EmptyMap,
                                        Status |-> "in_progress"],
                        !.StepContext = [set |-> TRUE, Outcome |-> "success",
                                         Conclusion |-> "success", Outputs |-> EmptyMap],
                        !.DynamicEnv = dyn,
                        !.StepOutputs = outs]
    /\ jidx = 1
    /\ sidx = 2
    /\ nidx = 0
    /\ meta = NoMetadata
    /\ ekind = "shell"
    /\ cid = 1
    /\ sres = Exited(0)
    /\ fs = [dir |-> "exists", env |-> [exists |-> TRUE, content |-> <<>>],
             out |-> [exists |-> TRUE, content |-> <<>>], faulted |-> FALSE]
    /\ dlog = <<>>
    /\ log = <<Event("jobStart", A, 0, ""), Event("stepStart", A, 1, ""),
               Event("stepReturn", A, 1, "success")>>
    /\ execErr = NoError

OutputsNext == FinishJob

OutputsSpec == OutputsInit /\ [][OutputsNext]_vars

-----------------------------------------------------------------------------
(* Properties of the analysis                                              *)

Needs(w, n) == JobOf(w, n).Needs

NeedsSet(w, n) == {Needs(w, n)[i] : i \in 1..Len(Needs(w, n))}

\* the names reachable from n along one or more needs entries
RECURSIVE ReachFrom(_, _, _)
ReachFrom(w, frontier, seen) ==
    LET next == UNION {NeedsSet(w, n) : n \in frontier} \ seen
    IN  IF next = {} THEN seen ELSE ReachFrom(w, next, seen \cup next)

TransitiveNeeds(w, n) == ReachFrom(w, {n}, {})

HasCycle(w) == \E n \in DOMAIN w.Jobs : n \in TransitiveNeeds(w, n)

NeedsDeclared(w) == \A n \in DOMAIN w.Jobs : NeedsSet(w, n) \subseteq DOMAIN w.Jobs

\* the position of job name n in the plan, 0 when absent
PlanIndex(n) ==
    IF \E i \in 1..Len(plan) : plan[i].Name = n
    THEN CHOOSE i \in 1..Len(plan) : plan[i].Name = n
    ELSE 0

\* C1: for an acyclic needs-graph over declared jobs, in the job list Analyze
\* returns every job comes after each job named in its needs, under every
\* iteration order of the job map.
C1_DependenciesFirst ==
    (apc = "done" /\ ~HasCycle(workflow) /\ NeedsDeclared(workflow)) =>
        \A j \in 1..Len(plan) :
            \A d \in NeedsSet(workflow, plan[j].Name) :
                \E i \in 1..(j - 1) : plan[i].Name = d

C1_Witness ==
    /\ apc = "done"
    /\ ~HasCycle(workflow)
    /\ NeedsDeclared(workflow)
    /\ workflow.Jobs[C].Needs = <<A, B>>
    /\ workflow.Jobs[B].Needs = <<A>>
    /\ [i \in 1..Len(plan) |-> plan[i].Name] = <<A, B, C>>

\* C2: when the needs-graph contains a cycle (a self-dependency included),
\* Analyze fails with an error and returns no execution plan.
C2_CycleIsAnError == HasCycle(workflow) => apc # "done"

\* the dependencies of job that the context c records with a status other than
\* success, as positions in the needs list
Unsatisfied(c, job) ==
    {i \in 1..Len(job.Needs) :
        job.Needs[i] \in DOMAIN c.Jobs /\ c.Jobs[job.Needs[i]].Status # SUCCESS}

\* C3: a job analyzed while one of its dependencies is recorded with a status
\* other than success gets would-run = false and a non-empty skip reason; with
\* no condition or a true condition the reason names the first such dependency
\* in needs order.
C3_UnsatisfiedDependency ==
    [][(apc = "analyzing" /\ Len(plan') = Len(plan) + 1) =>
          LET job == JobOf(workflow, order[aidx])
              bad == Unsatisfied(ctx, job)
              jr  == plan'[Len(plan')]
          IN  bad # {} =>
                /\ jr.WouldRun = FALSE
                /\ jr.SkipReason # <<>>
                /\ (~jr.Condition.set \/ jr.Condition.Value) =>
                      jr.SkipReason =
                          <<"dependency '">>
                          \o job.Needs[CHOOSE i \in bad : \A k \in bad : i <= k]
                          \o <<"' was skipped">>]_vars

\* job c needs a then b, a would run, b is skipped: the reason names b
C3_Witness ==
    /\ apc = "done"
    /\ workflow.Jobs[C].Needs = <<A, B>>
    /\ PlanIndex(A) # 0 /\ plan[PlanIndex(A)].WouldRun
    /\ PlanIndex(B) # 0 /\ ~plan[PlanIndex(B)].WouldRun
    /\ PlanIndex(B) < PlanIndex(C)
    /\ ~plan[PlanIndex(C)].WouldRun
    /\ plan[PlanIndex(C)].SkipReason = <<"dependency '", "b", "' was skipped">>

\* C4: when Analyze checks a job, the status of every job in its needs is
\* already recorded in the context, and in the returned plan a not-would-run
\* job makes every job that transitively needs it not-would-run (a job whose
\* condition is false carries the reason "condition evaluated to false").
C4_StatusBeforeDependents ==
    /\ (apc = "analyzing" /\ aidx <= Len(order)) =>
          NeedsSet(workflow, order[aidx]) \subseteq DOMAIN ctx.Jobs
    /\ apc = "done" =>
          \A i, j \in 1..Len(plan) :
              (~plan[i].WouldRun /\ plan[i].Name \in TransitiveNeeds(workflow, plan[j].Name))
                  => ~plan[j].WouldRun
    /\ apc = "done" =>
          \A i \in 1..Len(plan) :
              (plan[i].Condition.set /\ ~plan[i].Condition.Value) =>
                  plan[i].SkipReason = <<"condition evaluated to false">>

\* the conditions of the workflow that Evaluate cannot tokenize, parse or evaluate
Unevaluable == {ExprUnknownFn, ExprArity, ExprBadToken, ExprBadParse, ExprJobs}

HasUnevaluable(w) ==
    \E n \in DOMAIN w.Jobs :
        \/ w.Jobs[n].If \in Unevaluable
        \/ \E i \in 1..Len(w.Jobs[n].Steps) : w.Jobs[n].Steps[i].If \in Unevaluable

\* C5: a condition that fails to tokenize, parse or evaluate does not abort
\* Analyze: it resolves to false with a trace describing the error, and every
\* job and step of the workflow is present in the returned plan.
C5_ConditionErrorsContained ==
    HasUnevaluable(workflow) =>
        /\ apc # "panic"
        /\ apc = "done" =>
              /\ \A n \in DOMAIN workflow.Jobs :
                    /\ PlanIndex(n) # 0
                    /\ Len(plan[PlanIndex(n)].Steps) = Len(workflow.Jobs[n].Steps)
              /\ \A i \in 1..Len(plan) :
                    /\ plan[i].Condition.Expression \in Unevaluable =>
                          /\ ~plan[i].Condition.Value
                          /\ HasPrefix(plan[i].Condition.Trace, <<"error: ">>)
                    /\ \A k \in 1..Len(plan[i].Steps) :
                          plan[i].Steps[k].Condition.Expression \in Unevaluable =>
                              /\ ~plan[i].Steps[k].WouldRun
                              /\ HasPrefix(plan[i].Steps[k].Condition.Trace, <<"error: ">>)

-----------------------------------------------------------------------------
(* Properties of the execution                                             *)

IsJobStart(ev) == ev.e = "jobStart"

IsWouldRun(jr) == jr.WouldRun

\* the names of the jobs Execute started, in the order it started them
StartedJobs ==
    [i \in 1..Len(SelectSeq(log, IsJobStart)) |-> SelectSeq(log, IsJobStart)[i].job]

\* the names of the jobs the plan marks would-run, in plan order
WouldRunJobs ==
    [i \in 1..Len(SelectSeq(plan, IsWouldRun)) |-> SelectSeq(plan, IsWouldRun)[i].Name]

IsPrefix(s, t) == Len(s) <= Len(t) /\ SubSeq(t, 1, Len(s)) = s

\* C6: Execute runs exactly the would-run jobs of the plan, in plan order and
\* one at a time: the jobs started are a prefix of the would-run jobs (all of
\* them when Execute returns without error), none is started twice, a job
\* starts only after the job before it returned, a step starts only inside
\* its would-run job, and the steps start in declared order, each after the
\* step before it returned.
C6_SequentialInPlanOrder ==
    /\ IsPrefix(StartedJobs, WouldRunJobs)
    /\ (epc = "done" /\ ~execErr.set) => StartedJobs = WouldRunJobs
    /\ \A i, j \in 1..Len(StartedJobs) : i # j => StartedJobs[i] # StartedJobs[j]
    /\ \A k \in 1..Len(log) :
          /\ log[k].e = "jobStart" => (k = 1 \/ log[k - 1].e = "jobReturn")
          /\ log[k].e = "stepStart" =>
                /\ k > 1
                /\ log[k - 1].job = log[k].job
                /\ \/ log[k - 1].e = "jobStart" /\ log[k].step = 1
                   \/ log[k - 1].e = "stepReturn" /\ log[k].step = log[k - 1].step + 1
                /\ log[k].step <= Len(workflow.Jobs[log[k].job].Steps)
                /\ PlanIndex(log[k].job) # 0
                /\ plan[PlanIndex(log[k].job)].WouldRun

\* jobs a (two steps) and b both would run, and both ran to the end
C6_Witness ==
    /\ epc = "done"
    /\ ~execErr.set
    /\ StartedJobs = <<A, B>>
    /\ Len(workflow.Jobs[A].Steps) = 2
    /\ \E k \in 1..Len(log) : log[k] = Event("stepStart", A, 2, "")
    /\ \E k \in 1..Len(log) : log[k] = Event("stepStart", B, 1, "")

\* a step whose executor returned an error or a non-zero exit code
StepResultFailed == ~(sres.err = "" /\ sres.Success)

C8_DependenciesSucceededFirst ==
    \A k \in 1..Len(log) :
        log[k].e = "jobStart" =>
            \A d \in NeedsSet(workflow, log[k].job) :
                \E m \in 1..(k - 1) : log[m] = Event("jobReturn", d, 0, "success")

\* the value of the declared output of job a, read off the step outputs
ExpectedOutput(rt) ==
    IF <<"s", "1">> \in DOMAIN rt.StepOutputs /\ <<"v">> \in DOMAIN rt.StepOutputs[<<"s", "1">>]
    THEN rt.StepOutputs[<<"s", "1">>][<<"v">>]
    ELSE <<>>

\* C9: when executeJob has returned, the job status is 'success' if and only
\* if every step of the job succeeded and no error was returned, otherwise
\* 'failure', never 'in_progress'; the declared outputs are computed in the
\* success case and the outputs stay empty in the failure case.
C9_TerminalStatus ==
    (Len(log) > 0 /\ log[Len(log)].e = "jobReturn") =>
        LET j     == log[Len(log)].job
            jc    == runtime.JobContext
            steps == workflow.Jobs[j].Steps
            ok    == {i \in 1..Len(steps) :
                         \E m \in 1..Len(log) : log[m] = Event("stepReturn", j, i, "success")}
        IN  /\ jc.Job = j
            /\ jc.Status \in {"success", "failure"}
            /\ jc.Status = log[Len(log)].st
            /\ jc.Status = "success" <=> (ok = 1..Len(steps) /\ ~(execErr.set /\ execErr.job = j))
            /\ jc.Status = "failure" => DOMAIN jc.Outputs = {}
            /\ jc.Status = "success" =>
                  /\ DOMAIN jc.Outputs = DOMAIN workflow.Jobs[j].Outputs
                  /\ \A o \in DOMAIN jc.Outputs : jc.Outputs[o] = ExpectedOutput(runtime)

\* job a declares an output, its step s1 wrote v=2, and the job succeeded
C9_Witness ==
    /\ Len(log) > 0
    /\ log[Len(log)] = Event("jobReturn", A, 0, "success")
    /\ runtime.JobContext.Status = "success"
    /\ DOMAIN runtime.JobContext.Outputs = {<<"o">>}
    /\ runtime.JobContext.Outputs[<<"o">>] = <<"2">>

\* C10: when a shell step returns, every container it created has been stopped
\* and then removed, as the last two calls of the step, whether the start
\* failed, the wait failed, the exit code was non-zero or the step succeeded
\* and whether or not the stop failed; the entry of the step in the
\* live-container map is gone; the result of the step is what start and wait
\* decided, no stop or remove changing it; nothing is live when Execute returns.
C10_ContainerCleanedUp ==
    /\ []((epc = "step_ret" /\ ekind = "shell") =>
             /\ CurrentStep.ID \notin DOMAIN runtime.Containers
             /\ \A k \in 1..Len(dlog) :
                   (dlog[k].op = "create" /\ dlog[k].ok) =>
                      /\ Len(dlog) >= k + 3
                      /\ dlog[Len(dlog) - 1].op = "stop"
                      /\ dlog[Len(dlog) - 1].id = dlog[k].id
                      /\ dlog[Len(dlog)].op = "remove"
                      /\ dlog[Len(dlog)].id = dlog[k].id
                      /\ (sres.err = "" /\ sres.Success) <=>
                            /\ \E m \in 1..Len(dlog) : dlog[m].op = "start" /\ dlog[m].ok
                            /\ \E m \in 1..Len(dlog) :
                                  dlog[m].op = "wait" /\ dlog[m].ok /\ dlog[m].code = 0)
    /\ [](epc = "done" => DOMAIN runtime.Containers = {})
    /\ [][(epc \in {"stop", "remove"}) => (sres' = sres)]_vars

\* the container of a shell step exited with code 0, stopping it failed, and
\* it was removed all the same
C10_Witness ==
    /\ epc = "step_ret"
    /\ ekind = "shell"
    /\ sres.err = "" /\ sres.Success
    /\ Len(dlog) = 6
    /\ dlog[5].op = "stop" /\ ~dlog[5].ok
    /\ dlog[6].op = "remove" /\ dlog[6].id = dlog[5].id

\* Execute has returned, or a panic has unwound it
ExecuteOver == epc \in {"done", "crashed"}

\* C11: the scratch directory Execute created at its start is removed on every
\* exit path (success, job failure, missing job, a panic of the analysis), and
\* the run-time state no longer refers to it once Execute is over; until then
\* it exists and the run-time state refers to it.
C11_ScratchDirectoryRemoved ==
    /\ ExecuteOver => (runtime.TempDir = <<>> /\ fs.dir # "exists")
    /\ (ExecuteOver /\ apc # "idle") => fs.dir = "removed"
    /\ (epc \notin {"idle", "done", "crashed"}) =>
          (runtime.TempDir = TempDirName /\ fs.dir = "exists")

\* the second step of job a failed after the first had created the side-channel
\* files in the scratch directory
C11_Witness ==
    /\ epc = "done"
    /\ execErr.set
    /\ execErr.job = A
    /\ \E k \in 1..Len(log) : log[k] = Event("stepReturn", A, 1, "success")
    /\ \E k \in 1..Len(log) : log[k] = Event("stepReturn", A, 2, "failure")
    /\ fs.dir = "removed"
    /\ runtime.TempDir = <<>>

-----------------------------------------------------------------------------
(* Properties of the side-channel files                                    *)

\* the well-formed KEY=VALUE records of a file text, in the order written
Records(t) ==
    CASE t = TextPlain         -> <<<<(<<"K">>), (<<"V">>)>>>>
      [] t = TextOther         -> <<<<(<<"K">>), (<<"W">>)>>>>
      [] t = TextL             -> <<<<(<<"L">>), (<<"V">>)>>>>
      [] t = TextSpaces        -> <<<<(<<"K">>), (<<"V">>)>>>>
      [] t = TextNul           -> <<<<(<<"K">>), (<<"V">>)>>>>
      [] t = TextTwo           -> <<<<(<<"K">>), (<<"V">>)>>, <<(<<"L">>), (<<"W">>)>>>>
      [] t = TextTwice         -> <<<<(<<"K">>), (<<"V">>)>>, <<(<<"K">>), (<<"W">>)>>>>
      [] t = TextEqualsInValue -> <<<<(<<"K">>), (<<"V", "=", "W">>)>>>>
      [] t = TextMixed         -> <<<<(<<"L">>), (<<"W">>)>>>>
      [] t = TextEmptyValue    -> <<<<(<<"K">>), (<<>>)>>>>
      [] OTHER                 -> <<>>

\* the records assigned to a map one after the other
RECURSIVE Assigned(_, _)
Assigned(m, recs) ==
    IF recs = <<>> THEN m
    ELSE Assigned((Head(recs)[1] :> Head(recs)[2]) @@ m, Tail(recs))

\* the outputs recorded under a step id, none when the id has no entry
OutputsOf(rt, id) == IF id \in DOMAIN rt.StepOutputs THEN rt.StepOutputs[id] ELSE <<>>

StepIDs == {S1, S2}

\* C12: processing the side-channel files merges exactly the well-formed
\* KEY=VALUE records of the environment file into the dynamic environment and
\* those of the output file into the outputs of the current step (lines
\* without '=' or with an empty key skipped, null bytes stripped, keys and
\* values trimmed), leaves both files empty, and changes nothing when it is
\* repeated with nothing newly written or when the files are empty or missing.
C12_MergesExactlyTheRecords ==
    [][/\ (epc = "written" /\ epc' = "processed") =>
            /\ DOMAIN runtime'.DynamicEnv =
                   DOMAIN Assigned(runtime.DynamicEnv, Records(fs.env.content))
            /\ \A k \in DOMAIN runtime'.DynamicEnv :
                   runtime'.DynamicEnv[k] =
                       Assigned(runtime.DynamicEnv, Records(fs.env.content))[k]
            /\ \A id \in StepIDs :
                   LET want == IF id = CurrentStep.ID
                               THEN Assigned(OutputsOf(runtime, id), Records(fs.out.content))
                               ELSE OutputsOf(runtime, id)
                   IN  /\ DOMAIN OutputsOf(runtime', id) = DOMAIN want
                       /\ \A k \in DOMAIN want : OutputsOf(runtime', id)[k] = want[k]
            /\ DOMAIN runtime'.StepOutputs \subseteq StepIDs
            /\ fs.env.content = <<>> => runtime'.DynamicEnv = runtime.DynamicEnv
            /\ fs.out.content = <<>> => runtime'.StepOutputs = runtime.StepOutputs
            /\ fs'.env.content = <<>> /\ fs'.out.content = <<>>
            /\ fs'.env.exists = fs.env.exists /\ fs'.out.exists = fs.out.exists
       /\ (epc = "processed" /\ epc' = "processed") =>
            (runtime' = runtime /\ fs' = fs)]_vars

\* both files were processed for step s1: the environment file held K=V and
\* L=W next to the M an earlier step had set, the output file K=V=W
C12_Witness ==
    /\ epc = "processed"
    /\ sidx = 1
    /\ DOMAIN runtime.DynamicEnv = {<<"K">>, <<"L">>, <<"M">>}
    /\ runtime.DynamicEnv[<<"K">>] = <<"V">>
    /\ runtime.DynamicEnv[<<"L">>] = <<"W">>
    /\ DOMAIN runtime.StepOutputs = {S1}
    /\ DOMAIN runtime.StepOutputs[S1] = {<<"K">>}
    /\ runtime.StepOutputs[S1][<<"K">>] = <<"V", "=", "W">>
    /\ fs.env.exists /\ fs.env.content = <<>>
    /\ fs.out.exists /\ fs.out.content = <<>>

\* the value the records give key k: that of the last record for k
LastWritten(recs, k) ==
    recs[CHOOSE i \in 1..Len(recs) :
            /\ recs[i][1] = k
            /\ \A j \in (i + 1)..Len(recs) : recs[j][1] # k][2]

WrittenKeys(recs) == {recs[i][1] : i \in 1..Len(recs)}

\* m2 holds every key of m1, the keys of recs with their last written value
\* and the other keys of m1 with the value they had
GrownBy(m1, m2, recs) ==
    /\ DOMAIN m1 \subseteq DOMAIN m2
    /\ \A k \in WrittenKeys(recs) : k \in DOMAIN m2 /\ m2[k] = LastWritten(recs, k)
    /\ \A k \in DOMAIN m1 \ WrittenKeys(recs) : m2[k] = m1[k]

\* C13: over the step completions of a run the dynamic environment and the
\* step outputs only grow: no key and no (step id, output name) entry is
\* removed, a later write to a key replaces its value with the later one, and
\* the outputs of one step leave the entries of every other step id alone.
C13_StateOnlyGrows ==
    [][/\ DOMAIN runtime.DynamicEnv \subseteq DOMAIN runtime'.DynamicEnv
       /\ \A id \in DOMAIN runtime.StepOutputs :
             /\ id \in DOMAIN runtime'.StepOutputs
             /\ DOMAIN runtime.StepOutputs[id] \subseteq DOMAIN runtime'.StepOutputs[id]
             /\ id # CurrentStep.ID => runtime'.StepOutputs[id] = runtime.StepOutputs[id]
       /\ (epc = "written" /\ epc' = "processed") =>
             /\ GrownBy(runtime.DynamicEnv, runtime'.DynamicEnv, Records(fs.env.content))
             /\ GrownBy(OutputsOf(runtime, CurrentStep.ID),
                        OutputsOf(runtime', CurrentStep.ID), Records(fs.out.content))]_vars

\* K was set to 0 before, then written as V and later as W; step s2 recorded
\* the output K twice while the output K of step s1 stayed as it was
C13_Witness ==
    /\ epc = "processed"
    /\ <<"K">> \in DOMAIN runtime.DynamicEnv
    /\ runtime.DynamicEnv[<<"K">>] = <<"W">>
    /\ <<"L">> \in DOMAIN runtime.DynamicEnv
    /\ DOMAIN runtime.StepOutputs = {S1, S2}
    /\ runtime.StepOutputs[S1] = (<<"K">> :> <<"0">>)
    /\ DOMAIN runtime.StepOutputs[S2] = {<<"K">>}
    /\ runtime.StepOutputs[S2][<<"K">>] = <<"W">>

-----------------------------------------------------------------------------
(* Properties of the container configuration                               *)

\* the key of an entry KEY=VALUE of an environment list
EntryKey(entry) == Slice(entry, 0, Index(entry, <<"=">>))

EntryValue(entry) == Slice(entry, Index(entry, <<"=">>) + 1, Len(entry))

Defines(env, k) == \E i \in 1..Len(env) : EntryKey(env[i]) = k

\* the value of k in an environment list: that of its last occurrence
Resolve(env, k) ==
    EntryValue(env[CHOOSE i \in 1..Len(env) :
                      /\ EntryKey(env[i]) = k
                      /\ \A j \in (i + 1)..Len(env) : EntryKey(env[j]) # k])

\* the fixed platform variables
PlatformValues ==
    (<<"G", "I", "T", "H", "U", "B", "_", "W", "O", "R", "K", "S", "P", "A", "C", "E">> :> <<"/", "g", "i", "t", "h", "u", "b", "/", "w", "o", "r", "k", "s", "p", "a", "c", "e">>)
    @@ (<<"G", "I", "T", "H", "U", "B", "_", "A", "C", "T", "O", "R">> :> <<"r", "e", "h", "e", "a", "r", "s", "e">>)
    @@ (<<"G", "I", "T", "H", "U", "B", "_", "R", "E", "P", "O", "S", "I", "T", "O", "R", "Y">> :> <<"l", "o", "c", "a", "l", "/", "r", "e", "p", "o">>)
    @@ (RunnerOS :> <<"L", "i", "n", "u", "x">>)
    @@ (<<"R", "U", "N", "N", "E", "R", "_", "A", "R", "C", "H">> :> <<"X", "6", "4">>)

\* the value the layers give k: step over dynamic over job
Layered(stepEnv, dynamicEnv, jobEnv, k) ==
    IF k \in DOMAIN stepEnv THEN stepEnv[k]
    ELSE IF k \in DOMAIN dynamicEnv THEN dynamicEnv[k]
    ELSE jobEnv[k]

\* the CreateContainer calls of the step in hand
CreateCalls == {k \in 1..Len(dlog) : dlog[k].op = "create"}

\* C14: in the environment list of a shell step, with the last occurrence of
\* a key taken as its value, a key defined by the job, the dynamic or the step
\* layer resolves with precedence step > dynamic > job, and the five platform
\* variables are present with their fixed values whatever the layers define.
C14_EnvironmentPrecedence ==
    \A c \in CreateCalls :
        ekind = "shell" =>
            /\ \A k \in DOMAIN PlatformValues :
                   /\ Defines(dlog[c].config.Env, k)
                   /\ Resolve(dlog[c].config.Env, k) = PlatformValues[k]
            /\ \A k \in (DOMAIN CurrentStep.Env \cup DOMAIN runtime.DynamicEnv
                          \cup DOMAIN CurrentJob.Env) \ DOMAIN PlatformValues :
                   /\ Defines(dlog[c].config.Env, k)
                   /\ Resolve(dlog[c].config.Env, k) =
                          Layered(CurrentStep.Env, runtime.DynamicEnv, CurrentJob.Env, k)

\* the container of a shell step was created with X defined by the job (with
\* RUNNER_OS), the dynamic environment (with RUNNER_OS) and the step
C14_Witness ==
    /\ epc = "start"
    /\ ekind = "shell"
    /\ CurrentJob.Env = (X :> <<"j">>) @@ (RunnerOS :> <<"j">>)
    /\ runtime.DynamicEnv = (X :> <<"d">>) @@ (RunnerOS :> <<"d">>)
    /\ CurrentStep.Env = (X :> <<"s">>)
    /\ \E c \in CreateCalls :
          /\ dlog[c].ok
          /\ Resolve(dlog[c].config.Env, X) = <<"s">>
          /\ Resolve(dlog[c].config.Env, RunnerOS) = <<"L", "i", "n", "u", "x">>

\* the variables earlier steps wrote, in the environment of a container
DynamicEnvIn(env) ==
    \A k \in DOMAIN runtime.DynamicEnv \ (DOMAIN CurrentStep.Env \cup DOMAIN PlatformValues) :
        /\ Defines(env, k)
        /\ Resolve(env, k) = runtime.DynamicEnv[k]

\* C15: a variable an earlier step wrote to the environment side-channel file
\* is present with its latest value in the container environment of every
\* later step, a shell step or an action step alike.
C15_DynamicEnvReachesLaterSteps ==
    \A c \in CreateCalls : DynamicEnvIn(dlog[c].config.Env)

\* the same for shell steps alone
DynamicEnvReachesShellSteps ==
    \A c \in CreateCalls : ekind = "shell" => DynamicEnvIn(dlog[c].config.Env)

-----------------------------------------------------------------------------
(* Properties of the job outputs                                           *)

\* output o of job j is held in the run-time state or in the trigger context
OutputHeld(j, o) ==
    \/ /\ runtime.JobContext.set
       /\ runtime.JobContext.Job = j
       /\ o \in DOMAIN runtime.JobContext.Outputs
    \/ /\ j \in DOMAIN ctx.Jobs
       /\ o \in DOMAIN ctx.Jobs[j].Outputs

\* C16: the outputs computed for a job that completed with status success stay
\* held for the rest of the run, while later jobs execute and after Execute
\* returns: in the run-time state or under jobs.<job>.outputs of the trigger
\* context.
C16_JobOutputsPropagated ==
    \A k \in 1..Len(log) :
        (log[k].e = "jobReturn" /\ log[k].st = "success") =>
            \A o \in DOMAIN workflow.Jobs[log[k].job].Outputs : OutputHeld(log[k].job, o)

\* C17: an I/O error on a side-channel file during the processing after a
\* step (the read or the truncation of the environment or the output file
\* fails) is fatal: the step returns as failed, the job is marked failure and
\* the run aborts with an error.
C17_SideChannelErrorIsFatal ==
    [][(~fs.faulted /\ fs'.faulted) =>
          /\ log'[Len(log')].e \in {"stepReturn", "jobReturn"}
          /\ log'[Len(log')].st = "failure"
          /\ runtime'.JobContext.Status = "failure"
          /\ execErr'.set]_vars

\* the case of the output expression of job a
OutputCase == CHOOSE c \in OutputCases : c.text = workflow.Jobs[A].Outputs[<<"o">>]

\* the value the run-time state records for a case of one of the two shapes
Recorded(c) ==
    IF c.shape = "steps"
    THEN IF c.id \in DOMAIN runtime.StepOutputs /\ c.name \in DOMAIN runtime.StepOutputs[c.id]
         THEN runtime.StepOutputs[c.id][c.name]
         ELSE <<>>
    ELSE IF c.name \in DOMAIN runtime.DynamicEnv THEN runtime.DynamicEnv[c.name] ELSE <<>>

\* job a returned and its output o was computed
OutputComputed ==
    /\ log[Len(log)] = Event("jobReturn", A, 0, "success")
    /\ <<"o">> \in DOMAIN runtime.JobContext.Outputs

-----------------------------------------------------------------------------
(* Properties of the command substitution                                  *)

\* the pieces of the run command of the step in hand
CommandCase == CHOOSE c \in CommandCases : CommandText(c) = CurrentStep.Run

\* the command with every expression of the two shapes replaced by the value
\* recorded for it, the empty string when there is none, and all else kept
RECURSIVE Substituted(_)
Substituted(pieces) ==
    IF pieces = <<>> THEN <<>>
    ELSE (IF Head(pieces).shape \in {"steps", "env"}
          THEN Recorded(Head(pieces))
          ELSE Head(pieces).text) \o Substituted(Tail(pieces))

\* no recorded value holds a ${{ itself
PlainValues ==
    /\ \A k \in DOMAIN runtime.DynamicEnv :
           ~Contains(runtime.DynamicEnv[k], <<"$", "{", "{">>)
    /\ \A id \in DOMAIN runtime.StepOutputs : \A k \in DOMAIN runtime.StepOutputs[id] :
           ~Contains(runtime.StepOutputs[id][k], <<"$", "{", "{">>)

\* C19: the command a shell step runs is its run text with every
\* ${{ steps.<id>.outputs.<name> }} and ${{ env.<name> }} occurrence replaced
\* by the recorded value, or by the empty string when nothing is recorded;
\* text outside ${{ }} and ${{ ... }} occurrences of any other shape are
\* unchanged. Stated for the runs in which no recorded value holds a ${{.
C19_SubstitutionKeepsOtherText ==
    \A c \in CreateCalls :
        (ekind = "shell" /\ PlainValues) => dlog[c].config.Cmd = Substituted(CommandCase)

\* the same for commands without an expression of another shape
SubstitutionOfTheTwoShapes ==
    \A c \in CreateCalls :
        (ekind = "shell" /\ PlainValues
         /\ \A i \in 1..Len(CommandCase) : CommandCase[i].shape # "other")
            => dlog[c].config.Cmd = Substituted(CommandCase)

\* the command with each ${{ ... }} occurrence of the run text replaced once,
\* by the value evaluateExpression gives for it, inserted as it is
RECURSIVE ReplacedOnce(_)
ReplacedOnce(pieces) ==
    IF pieces = <<>> THEN <<>>
    ELSE (CASE Head(pieces).shape \in {"steps", "env"} -> Recorded(Head(pieces))
            [] Head(pieces).shape = "other" -> <<>>
            [] OTHER -> Head(pieces).text) \o ReplacedOnce(Tail(pieces))

\* C20: the substitution is not recursive: the value put in for a ${{ ... }}
\* occurrence is inserted verbatim and not scanned for further occurrences,
\* so the command that is run is the run text with each of its own
\* occurrences replaced once, and the substitution comes to an end.
C20_SubstitutionNotRecursive ==
    /\ epc # "hang"
    /\ \A c \in CreateCalls :
          ekind = "shell" => dlog[c].config.Cmd = ReplacedOnce(CommandCase)

\* the same when no recorded value holds a ${{
SubstitutionOfPlainValues ==
    PlainValues =>
        /\ epc # "hang"
        /\ \A c \in CreateCalls :
              ekind = "shell" => dlog[c].config.Cmd = ReplacedOnce(CommandCase)

-----------------------------------------------------------------------------
(* Properties of the dispatch of a step                                    *)

\* executeStep has handed the step in hand to an executor, or found none
Dispatched == epc # "steps" /\ Len(log) > 0 /\ log[Len(log)].e = "stepStart"

\* C21: a step goes to the first applicable executor, the shell executor
\* before the action executor: a step with a run command is handled by the
\* shell executor even when it has an action reference too, a step with an
\* action reference only by the action executor, and a step with neither
\* fails with 'no executor found' without any container operation.
C21_FirstApplicableExecutor ==
    Dispatched =>
        /\ CurrentStep.Run # <<>> => ekind = "shell"
        /\ (CurrentStep.Run = <<>> /\ CurrentStep.Uses # <<>>) =>
               ekind \in {"docker", "action"}
        /\ (CurrentStep.Run = <<>> /\ CurrentStep.Uses = <<>>) =>
               /\ ekind = "none"
               /\ epc = "step_ret"
               /\ sres = Failed("no executor found for step")
               /\ dlog = <<>>
        /\ \A c \in CreateCalls :
               dlog[c].config.Cmd =
                   (IF CurrentStep.Run # <<>>
                    THEN evaluateExpressions(runtime, CurrentStep.Run).result
                    ELSE <<>>)

\* a step with a run command and an action reference got a container that
\* runs its command
C21_Witness ==
    /\ Dispatched
    /\ CurrentStep.Run = CmdEcho /\ CurrentStep.Uses = UsesDocker
    /\ ekind = "shell"
    /\ epc = "start"
    /\ \E c \in CreateCalls : dlog[c].ok /\ dlog[c].config.Cmd = CmdEcho

\* a nested step with an action reference and no run command
UsesOnly(step) == step.Run = <<>> /\ step.Uses # <<>>

\* the composite action in hand has returned to executeStep
CompositeReturned == ekind = "composite" /\ epc = "step_ret"

\* C22: a composite action whose nested steps include one with an action
\* reference and no run command returns an error to executeStep: it is never
\* reported successful with that nested step passed over
C22_NestedUsesFailsExplicitly ==
    (CompositeReturned /\ \E i \in DOMAIN meta.Steps : UsesOnly(meta.Steps[i]))
        => sres.err # ""


\* the wait of the step in hand was ended by the cancellation of the context
CancelledWait ==
    \E k \in DOMAIN dlog : dlog[k].op = "wait" /\ dlog[k].err = "context canceled"

\* C23: when the cancellation of the context ends the wait of a shell step,
\* the executor returns an error; the stop and the remove of the container
\* are still called, as the last two calls of the step; the step and the job
\* are recorded as failed and Execute returns the error at once, no further
\* step or job being started
C23_CancellationAbortsRun ==
    /\ []((CancelledWait /\ epc \in {"stop", "remove", "step_ret"})
             => (sres.set /\ sres.err # "" /\ ~sres.Success))
    /\ []((CancelledWait /\ epc = "step_ret") =>
             /\ Len(dlog) >= 2
             /\ dlog[Len(dlog) - 1].op = "stop" /\ dlog[Len(dlog) - 1].id = cid
             /\ dlog[Len(dlog)].op = "remove" /\ dlog[Len(dlog)].id = cid)
    /\ [][(CancelledWait /\ epc = "step_ret") =>
             /\ epc' = "done"
             /\ execErr'.set
             /\ runtime'.JobContext.Status = "failure"
             /\ log' = log \o <<Event("stepReturn", plan[jidx].Name, sidx, "failure"),
                                Event("jobReturn", plan[jidx].Name, 0, "failure")>>]_vars
    /\ [][execErr.set => (log' = log /\ epc' = epc)]_vars

\* Execute returned the error of a cancelled wait while a later step of the
\* job and a later job of the plan were still to run
C23_Witness ==
    /\ epc = "done"
    /\ execErr.set
    /\ execErr.msg = "container execution failed: context canceled"
    /\ jidx < Len(plan)
    /\ sidx < Len(CurrentJob.Steps)
    /\ log[Len(log)] = Event("jobReturn", plan[jidx].Name, 0, "failure")


\* the path of the segments
Path(segments) == Join(segments, <<".">>)

\* the call of Lookup under way has returned or crashed
LookedUp == call.fn = "Lookup" /\ call.done

\* paths whose number of segments fits no form of their namespace
MalformedArity ==
    {path \in LookupPaths :
        LET parts == splitPath(path)
        IN  /\ Len(parts) > 0
            /\ \/ parts[1] \in {<<"e", "n", "v">>, <<"s", "e", "c", "r", "e", "t", "s">>,
                                <<"m", "a", "t", "r", "i", "x">>} /\ Len(parts) # 2
               \/ parts[1] \in {WJobs, WSteps} /\ Len(parts) \notin {3, 4}
               \/ parts[1] = <<"g", "i", "t", "h", "u", "b">> /\ Len(parts) = 1}

\* C24: Lookup returns for every path, found or not-found, without crashing,
\* and a path whose arity does not fit its namespace is not found
C24_LookupTotal ==
    LookedUp =>
        /\ ~call.res.panic
        /\ call.arg \in MalformedArity => call.res = NotFound

\* the names of outputs looked up
OutputNames == {<<"o">>, <<"p">>}

\* what a recorded map of outputs holds under the name
Held(outputs, name) ==
    IF name \in DOMAIN outputs THEN Found(VStr(outputs[name])) ELSE NotFound

\* C25: for a recorded job, jobs.<job>.status is found with the recorded status
\* and jobs.<job>.outputs.<name> with the recorded value, not found when the
\* job has no such output; likewise steps.<step>.outcome and
\* steps.<step>.outputs.<name> for a recorded step
C25_RecordedValuesFound ==
    LookedUp =>
        /\ \A j \in DOMAIN ctx.Jobs :
              /\ call.arg = Path(<<WJobs, j, WStatus>>)
                    => call.res = Found(VStr(ctx.Jobs[j].Status))
              /\ \A n \in OutputNames :
                    call.arg = Path(<<WJobs, j, WOutputs, n>>)
                        => call.res = Held(ctx.Jobs[j].Outputs, n)
        /\ \A st \in DOMAIN ctx.Steps :
              /\ call.arg = Path(<<WSteps, st, WOutcome>>)
                    => call.res = Found(VStr(ctx.Steps[st].Outcome))
              /\ \A n \in OutputNames :
                    call.arg = Path(<<WSteps, st, WOutputs, n>>)
                        => call.res = Held(ctx.Steps[st].Outputs, n)


\* the call of Evaluate under way has returned
Evaluated == call.fn = "Evaluate" /\ call.done

\* Evaluate returned the boolean
Yields(b) == call.res.st = "ok" /\ call.res.Value = VBool(b)

\* C26: an operand that is boolean false, the empty string, null, missing or
\* the number zero counts as false under ||, && and !, every other operand as
\* true: x || false and x && true yield the truthiness of x, !x its negation
C26_Truthiness ==
    Evaluated =>
        \A c \in TruthCases :
            /\ call.arg = OrFalse(c.text) => Yields(c.truthy)
            /\ call.arg = AndTrue(c.text) => Yields(c.truthy)
            /\ call.arg = Not(c.text) => Yields(~c.truthy)

\* the call of the parser under way has returned
Parsed == call.fn = "parse" /\ call.done

\* C27: a text that is not one complete expression (tokens left over, an
\* unclosed call or group, call arguments without a comma between them, an
\* unexpected token) is rejected by the parser with an error
C27_MalformedRejected ==
    Parsed =>
        \A c \in ParseCases :
            (call.arg = c.text /\ ~c.wellFormed) => call.res.err # ""


\* Analyze run to its end on an analyzer of its own
RECURSIVE analyzeAlone(_, _, _)
analyzeAlone(p, w, b) ==
    IF p.apc = "panic" THEN p
    ELSE IF p.aidx > Len(p.order) THEN [p EXCEPT !.apc = "done"]
    ELSE analyzeAlone(analyzed(p, p.order[p.aidx],
                               analyzeJob(p.ctx, p.order[p.aidx],
                                          JobOf(w, p.order[p.aidx]), b)),
                      w, b)

\* what an analysis with the job order returns when it runs alone on a fresh
\* context
Alone(jobOrder) ==
    analyzeAlone([NewAnalyzer EXCEPT !.apc = "analyzing", !.order = jobOrder],
                 workflow, build)

\* C28: of two analyses running concurrently on one workflow with a context
\* each, either returns the plan it returns when run alone, and is not kept
\* from returning by the other: an analysis the other one stopped would not
\* have returned alone either
C28_NoInterference ==
    /\ apc = "done" => (Alone(order).apc = "done" /\ plan = Alone(order).plan)
    /\ peer.apc = "done" =>
          (Alone(peer.order).apc = "done" /\ peer.plan = Alone(peer.order).plan)
    /\ (peer.apc = "panic" /\ apc = "analyzing") => Alone(order).apc = "panic"
    /\ (apc = "panic" /\ peer.apc = "analyzing") => Alone(peer.order).apc = "panic"


\* C29: two runs of Analyze on the same workflow with equal fresh contexts
\* return the same plan, whatever the orders in which the two runs iterate the
\* job map: the same jobs in the same order with the same would-run flags and
\* skip reasons
C29_SamePlan ==
    (apc = "done" /\ peer.apc = "done") =>
        /\ Len(plan) = Len(peer.plan)
        /\ \A i \in 1..Len(plan) :
              /\ plan[i].Name = peer.plan[i].Name
              /\ plan[i].WouldRun = peer.plan[i].WouldRun
              /\ plan[i].SkipReason = peer.plan[i].SkipReason

\* no step is repeated in the sequence
NoRepeats(seq) == \A i, k \in 1..Len(seq) : seq[i] = seq[k] => i = k

\* C30: Analyze comes to an end with a plan on every workflow, cycles,
\* self-dependencies and undeclared needs included: the traversal puts a job
\* name in the order at most once, the loop over the order only moves
\* forward, nothing aborts Analyze, and the plan it returns has a result for
\* each name of the order
C30_AnalyzeReturnsPlan ==
    /\ apc # "panic"
    /\ NoRepeats(order)
    /\ apc = "analyzing" => (aidx \in 1..Len(order) + 1 /\ Len(plan) = aidx - 1)
    /\ apc = "done" => Len(plan) = Len(order)


\* the plan's result for the step in hand
PlannedStep == plan[jidx].Steps[sidx]

\* C31: a step that the plan marks would-run = false (its condition is false)
\* is not handed to a step executor and no container is created for it, and
\* the steps after it still run
C31_StepConditionHonoured ==
    /\ (epc \notin {"steps", "jobs", "done"} /\ sidx <= Len(plan[jidx].Steps))
          => PlannedStep.WouldRun
    /\ \A k \in 1..Len(log) :
          log[k].e = "stepStart" => plan[jidx].Steps[log[k].step].WouldRun


\* the values of the step conditions of the workflows: true, false, and a
\* text that is no expression, which counts as false
StepConditionValue ==
    (ExprTrue :> TRUE) @@ (ExprFalse :> FALSE) @@ (ExprBadToken :> FALSE)

\* C32: in the plan the would-run flag of a step is true when the step has no
\* condition and the value of its condition otherwise, whether or not its job
\* would run; so a job without any condition and without needs would run with
\* each of its steps
C32_StepFlagFromOwnCondition ==
    \A i \in 1..Len(plan) :
        LET job == JobOf(workflow, plan[i].Name)
        IN  /\ Len(plan[i].Steps) = Len(job.Steps)
            /\ \A k \in 1..Len(job.Steps) :
                  plan[i].Steps[k].WouldRun =
                      (IF job.Steps[k].If = <<>> THEN TRUE
                       ELSE StepConditionValue[job.Steps[k].If])
            /\ (job.If = <<>> /\ job.Needs = <<>> /\ \A k \in 1..Len(job.Steps) : job.Steps[k].If = <<>>)
                  => (plan[i].WouldRun /\ \A k \in 1..Len(job.Steps) : plan[i].Steps[k].WouldRun)

\* Analyze returned a plan in which job a would not run while its first step,
\* without condition, would, and its last step, with a false condition, would not
C32_Witness ==
    /\ apc = "done"
    /\ \E i \in 1..Len(plan) :
          /\ plan[i].Name = A
          /\ ~plan[i].WouldRun
          /\ Len(plan[i].Steps) = 2
          /\ workflow.Jobs[A].Steps[1].If = <<>> /\ plan[i].Steps[1].WouldRun
          /\ workflow.Jobs[A].Steps[2].If = ExprFalse /\ ~plan[i].Steps[2].WouldRun


\* C33: every job of the plan either would run, with an empty skip reason,
\* or would not run, with a non-empty skip reason, whatever its condition
\* (absent, true, false, unevaluable) and the state of its dependencies
C33_SkippedJobsCarryReason ==
    \A i \in 1..Len(plan) : plan[i].WouldRun <=> plan[i].SkipReason = <<>>

\* Analyze returned a plan with job a skipped for its false condition, job b
\* skipped for its dependency a although its own condition is true, and job c
\* running
C33_Witness ==
    /\ apc = "done"
    /\ \E i, k, m \in 1..Len(plan) :
          /\ plan[i].Name = A /\ ~plan[i].WouldRun
          /\ plan[i].SkipReason = <<"condition evaluated to false">>
          /\ plan[k].Name = B /\ ~plan[k].WouldRun
          /\ plan[k].Condition.Expression = ExprTrue /\ plan[k].Condition.Value
          /\ plan[k].SkipReason # <<>>
          /\ plan[m].Name = C /\ plan[m].WouldRun /\ plan[m].SkipReason = <<>>


\* C34: the plan holds one result for each job the workflow declares and none
\* for any other name: a name that only occurs in a needs list gets no
\* result, so that Execute finds every job of the plan in the workflow
C34_PlanMatchesWorkflow ==
    /\ \A i \in 1..Len(plan) : plan[i].Name \in DOMAIN workflow.Jobs
    /\ \A i, k \in 1..Len(plan) : plan[i].Name = plan[k].Name => i = k
    /\ apc = "done" => \A n \in DOMAIN workflow.Jobs : \E i \in 1..Len(plan) : plan[i].Name = n
    /\ ~(execErr.set /\ execErr.msg = "not found in workflow")


\* the call of evaluateCondition under way has returned
ConditionEvaluated == call.fn = "evaluateCondition" /\ call.done

\* C35: a condition is satisfied exactly when its expression evaluates to the
\* boolean true; a string, a number, a context value or nil counts as false,
\* the truthiness of the logical operators not being applied to the result
C35_OnlyBooleanTrueSatisfies ==
    ConditionEvaluated =>
        /\ ~call.res.panic
        /\ \A c \in ConditionCases :
              call.arg = c.text => call.res.cond.Value = c.satisfied

\* the condition github.ref, a non-empty string, was evaluated as not satisfied
C35_Witness ==
    /\ ConditionEvaluated
    /\ call.arg = <<"g", "i", "t", "h", "u", "b", ".", "r", "e", "f">>
    /\ call.res.cond.Trace # <<>>
    /\ ~call.res.cond.Value


\* C36: the substitution in the command of a shell step comes to an end for
\* every command text and every run-time state, also when a recorded
\* environment value or step output itself holds a ${{ ... }}: Execute is
\* never left in a substitution that does not end.
C36_SubstitutionTerminates == epc # "hang"


\* the nested shell step that has just returned failed: with an error, or
\* with a command that exited with a code other than 0
NestedFailed ==
    /\ epc = "nested_ret"
    /\ sres.err # "" \/ (sres.set /\ ~sres.Success)

\* C37: a composite action fails when one of its nested shell steps fails:
\* after a nested step that returned an error or exited with a code other than
\* 0 no later nested step is run and the composite step is returned to
\* executeStep as failed.
C37_NestedFailureFailsComposite ==
    [][NestedFailed => (epc' = "step_ret" /\ ~(sres'.err = "" /\ sres'.Success))]_vars


\* the step in hand, run in a container of its own, has been returned to
\* executeStep as successful
ContainerStepSucceeded ==
    /\ epc = "step_ret"
    /\ ekind \in {"shell", "docker", "action"}
    /\ sres.err = "" /\ sres.Success

\* the container of the step in hand was waited for and exited with code 0
\* before any stop or remove
RanToCompletion ==
    \E k \in DOMAIN dlog :
        /\ dlog[k].op = "wait" /\ dlog[k].ok /\ dlog[k].code = 0
        /\ \A j \in 1..(k - 1) : dlog[j].op \notin {"stop", "remove"}

\* C38: a step is reported successful only after its container ran to
\* completion with exit code 0, an action step as well as a shell step: the
\* container is not stopped or removed before it exited.
C38_SuccessAfterCompletion == ContainerStepSucceeded => RanToCompletion


\* the containers the step in hand created that have not been stopped and
\* removed yet: the calls that created them
Unremoved ==
    {k \in DOMAIN dlog :
        /\ dlog[k].op = "create" /\ dlog[k].ok
        /\ ~(\E m, n \in DOMAIN dlog :
                /\ k < m /\ m < n
                /\ dlog[m].op = "stop" /\ dlog[m].id = dlog[k].id
                /\ dlog[n].op = "remove" /\ dlog[n].id = dlog[k].id)}

\* no step, and no nested step of a composite action, is being executed
BetweenSteps == epc \in {"jobs", "steps", "nested", "nested_ret", "step_ret", "done"}

\* C39: at every point of a run at most one container the executor created
\* has not been stopped and removed yet, and the live-container map holds at
\* most one entry; between two steps, between the nested steps of a composite
\* action and after Execute returned there is none and the map is empty.
C39_OneContainerAtATime ==
    /\ Cardinality(Unremoved) <= 1
    /\ Cardinality(DOMAIN runtime.Containers) <= 1
    /\ BetweenSteps => (Unremoved = {} /\ DOMAIN runtime.Containers = {})

\* the second nested step of a composite action, a step without id, has its
\* container running and recorded, the container of the first nested step
\* being removed
C39_Witness ==
    /\ ekind = "composite"
    /\ epc = "wait"
    /\ nidx = 2
    /\ meta.Steps[nidx].ID = <<>>
    /\ Cardinality(Unremoved) = 1
    /\ DOMAIN runtime.Containers = {<<>>}
    /\ \E k \in DOMAIN dlog : dlog[k].op = "remove"


\* Analyze has been called a second time on the analyzer
AnalyzedAgain == call.fn = "Analyze"

\* C40: Analyze is idempotent on its analyzer: a second call on the same
\* analyzer and Context gives every job the would-run flag and the skip reason
\* the first call gave it, whatever job statuses the first call recorded.
C40_AnalyzeIdempotent ==
    AnalyzedAgain =>
        \A i \in DOMAIN plan : \A j \in DOMAIN call.res :
            plan[i].Name = call.res[j].Name =>
                /\ plan[i].WouldRun = call.res[j].WouldRun
                /\ plan[i].SkipReason = call.res[j].SkipReason


====
